---- MODULE Spec2Model ----
(***************************************************************************)
(* Live Memory: the note / consolidation engine of one space.              *)
(*                                                                         *)
(* State: the objects of the space in the S3 bucket (live notes, bank      *)
(* files, _synthesis.md, _meta.json), the asyncio consolidation lock of    *)
(* the space, and one coroutine per in-flight tool call (two               *)
(* bank_consolidate callers and the admin_gc_notes garbage collector).     *)
(* Every await on S3 or on the LLM is a suspension point: one action;      *)
(* the reads of _collect_inputs are one action, taken at its listing of    *)
(* live/.  The space exists (its _meta.json is present) and the tokens of  *)
(* the callers pass check_access and check_write_permission.               *)
(* The timestamps consolidated_at / last_consolidation, the note bodies,   *)
(* the rules and the token usage are not represented.                      *)
(*                                                                         *)
(* Each coroutine record carries, besides the locals of the code, a log    *)
(* of what its current run has done: ops (the S3 puts and deletes it has   *)
(* issued, in order), requests (LLM requests sent), llm_kind (kind of the  *)
(* last LLM response), during (notes written by others since its           *)
(* collection) and rr (what consolidate returned or raised).               *)
(***************************************************************************)
EXTENDS Integers, Sequences, FiniteSets, TLC

\* ---------------------------------------------------------------- bounds
MaxTime == 1
MaxAgentLen == 3
MaxRequests == 4
MaxWritten == 3
MaxWrittenGC == 1
MaxWrittenAge == 2
max_notes == 2
MaxDelFail == 1
MaxTokens == 1
MaxCommits == 2
MaxPushes == 2

\* ------------------------------------------------------------ vocabulary
Agents == {"A", "B"}
AgentRank == [a \in Agents |-> IF a = "A" THEN 1 ELSE 2]
Callers == {"c1", "c2"}
CallerAgent == [c \in Callers |-> IF c = "c1" THEN "A" ELSE "B"]
Procs == Callers \cup {"gc"}
BankFiles == {"a.md", "b.md"}
Absent == "<absent>"
NoSynthesis == [notes_processed |-> 0, content |-> Absent]
NoResult == [status |-> "none"]
NoData == [bank_files |-> <<>>, synthesis |-> ""]

VARIABLES now, nextId, live, bank, synthesis, meta, lock, run, delFails,
          registry, tlock, tk, nextTok, revoked_ok, granted,
          spaces, backups, call,
          objects, backup_objects, job, request, answer, uuids, deleted,
          note, gc_before, mcp, wire,
          consolidation_locks, bucket, task,
          meta_json, bank_files, remote, gjob, commits,
          gc_young, filtered

\* The token registry and the requests working on it.
tokvars == <<registry, tlock, tk, nextTok, revoked_ok, granted>>
\* The spaces and backups the MCP tools work on, and the last tool call.
toolvars == <<spaces, backups, call>>
\* The objects of one space and of its backups, the tool calls in flight on
\* them, the last S3 request and the client that signed it.
storevars == <<objects, backup_objects, job, request, answer, uuids, deleted>>
\* An MCP client over SSE and the server's side of its session.
mcpvars == <<mcp, wire>>
\* The consolidation locks of LockManager, the objects of two spaces under
\* their full keys, and the calls that consolidate them.
spacevars == <<consolidation_locks, bucket, task>>
\* The _meta.json of a space connected to Graph Memory, the file names of
\* its bank, the documents of the remote memory, the calls in flight that
\* rewrite _meta.json, and what has been committed so far.
graphvars == <<meta_json, bank_files, remote, gjob, commits>>
\* The notes younger than the cutoff at the collector's scan; a note file
\* name put through the agent filter of the consolidator.
restvars == <<gc_young, filtered>>
morevars == <<spacevars, graphvars, restvars>>
extvars == <<storevars, note, gc_before, mcpvars, morevars>>
auxvars == <<tokvars, toolvars, extvars>>

vars == <<now, nextId, live, bank, synthesis, meta, lock, run, delFails, auxvars>>

\* ------------------------------------------------------------- note keys
\* {space}/live/{ts}_{agent}_{category}_{uuid8}.md ; ts has a resolution
\* of one second, the uuid8 is fresh (id stands for category and uuid8).
NoteKey(ts, agent, id) == [ts |-> ts, agent |-> agent, id |-> id]

\* Order of the key strings: timestamp, then agent, then the rest.
KeyLess(k1, k2) ==
  \/ k1.ts < k2.ts
  \/ k1.ts = k2.ts /\ AgentRank[k1.agent] < AgentRank[k2.agent]
  \/ k1.ts = k2.ts /\ k1.agent = k2.agent /\ k1.id < k2.id

MinKey(S) == CHOOSE k \in S : \A j \in S \ {k} : KeyLess(k, j)

RECURSIVE SortedKeys(_)
SortedKeys(S) ==
  IF S = {} THEN <<>> ELSE <<MinKey(S)>> \o SortedKeys(S \ {MinKey(S)})

Range(s) == {s[i] : i \in 1..Len(s)}

\* _extract_agent: second "_"-separated part of the file name.
extract_agent(k) == k.agent

\* The filter of _collect_inputs: "_{agent}_" in name or name starts with
\* "{agent}_"; an empty agent keeps every note.  The names in Agents are
\* no category name and contain no "_", so the test is on the agent part.
agent_filter(agent, S) ==
  IF agent = "" THEN S ELSE {k \in S : k.agent = agent}

\* Agents in order of first appearance in a key sequence (dict insertion).
RECURSIVE AgentsInOrder(_)
AgentsInOrder(s) ==
  IF s = <<>> THEN <<>>
  ELSE LET a == extract_agent(s[1])
           rest == AgentsInOrder(Tail(s))
       IN <<a>> \o SelectSeq(rest, LAMBDA b : b # a)

\* ------------------------------------------------------------ LLM replies
Entry(f, c, a) == [filename |-> f, content |-> c, action |-> a]

LLMData == {
  [bank_files |-> <<Entry("a.md", "x", "created"), Entry("b.md", "y", "updated")>>,
   synthesis |-> "s"],
  [bank_files |-> <<>>, synthesis |-> "s"],
  [bank_files |-> <<Entry("", "x", "created"), Entry("a.md", "", "updated"),
                    Entry("b.md", "y", "updated")>>,
   synthesis |-> "s"] }

\* What one chat-completions request can produce.
LLMResponses ==
  {[kind |-> "exception", data |-> NoData],
   [kind |-> "invalid_json", data |-> NoData],
   [kind |-> "missing_field", data |-> NoData]}
  \cup {[kind |-> "ok", data |-> d] : d \in LLMData}

\* ------------------------------------------------------------- coroutines
IdleRun == [pc |-> "idle", agent |-> "", notes_keys |-> <<>>,
            notes_remaining |-> 0, attempt |-> 0, llm_kind |-> "none",
            requests |-> 0, data |-> NoData, idx |-> 1,
            files_created |-> 0, files_updated |-> 0,
            meta_rd |-> [consolidation_count |-> 0, total_notes_processed |-> 0],
            del_keys |-> <<>>, didx |-> 1,
            result |-> NoResult, rr |-> NoResult,
            ops |-> <<>>, during |-> {},
            gc_agents |-> <<>>, gc_details |-> <<>>]

\* ----------------------------------------------------------------- tokens
\* Cleartexts are "lm_" + 32 fresh random bytes; the registry key of a
\* cleartext is "sha256:" + its digest.
RawToken(i) ==
  CASE i = 1 -> "lm_1" [] i = 2 -> "lm_2" [] i = 3 -> "lm_3" [] OTHER -> "lm_x"

sha256_identity(raw) == raw

sha256(raw) ==
  CASE raw = "lm_1" -> "sha256:d1" [] raw = "lm_2" -> "sha256:d2"
    [] raw = "lm_3" -> "sha256:d3" [] OTHER -> "sha256:dx"

Issued == {RawToken(i) : i \in 1..MaxTokens}
UnknownToken == "lm_x"

TRequests == {"q1", "q2"}
TokenNames == {"agent-a"}
Spaces == {"s1", "s2"}

\* The comma-separated parts of a permissions / space_ids argument.
PermArgs == {<<"read">>, <<"read", " write">>, <<"root">>, <<>>}
SpaceArgs == {<<>>, <<"s1">>}

\* str.strip on the parts of the vocabulary.
strip(x) == IF x = " write" THEN "write" ELSE x

\* [p.strip() for p in arg.split(",") if p.strip()]
parse_list(parts) ==
  LET stripped == [i \in 1..Len(parts) |-> strip(parts[i])]
  IN SelectSeq(stripped, LAMBDA x : x # "")

\* [p.strip() for p in arg.split(",")]
parse_list_keep_empty(parts) == [i \in 1..Len(parts) |-> strip(parts[i])]

None == "None"
NoTime == -1

TokenInfo(h, name, perms, sids, exp) ==
  [hash |-> h, name |-> name, permissions |-> perms, space_ids |-> sids,
   expires_at |-> exp, last_used_at |-> NoTime, revoked |-> FALSE]

\* token_hash arguments of revoke / update: a full hash, or a prefix that
\* every stored hash starts with.
HashArgs == {sha256(r) : r \in Issued} \cup {"sha256:"}

\* t.hash.startswith(token_hash) or token_hash.startswith(t.hash[:20])
hash_matches(t_hash, token_hash) == token_hash = "sha256:" \/ token_hash = t_hash

\* Index of the first entry of tokens that satisfies Test, 0 if none.
FirstIndex(tokens, Test(_)) ==
  IF \E i \in 1..Len(tokens) : Test(tokens[i])
  THEN CHOOSE i \in 1..Len(tokens) :
         Test(tokens[i]) /\ \A j \in 1..(i - 1) : ~Test(tokens[j])
  ELSE 0

\* ------------------------------------------------------------------ tools
\* The auth context of a request: Optional[dict], here a sequence of at
\* most one {client_name, permissions, allowed_resources}.
NoContext == <<>>
ToolPermissions == {<<"read">>, <<"read", "write">>, <<"admin">>}
ToolAllowed == {<<>>, <<"s1">>}
Contexts ==
  {NoContext} \cup
  {<<[client_name |-> "agent-a", permissions |-> p, allowed_resources |-> a]>> :
     p \in ToolPermissions, a \in ToolAllowed}

\* A space at the tools' level of detail: its live notes and whether its
\* _meta.json carries a graph_memory configuration.
NoSpace == [exists |-> FALSE, notes |-> 0, graph |-> FALSE]
NewSpace == [exists |-> TRUE, notes |-> 0, graph |-> FALSE]
SpaceRecords == [exists : {TRUE}, notes : 0..MaxWrittenGC, graph : BOOLEAN]

\* space_id arguments of space_create, and SPACE_ID_REGEX on them.
SpaceIdArgs == Spaces \cup {"bad id"}
SPACE_ID_REGEX(space_id) == space_id \in Spaces
\* backup_id arguments "space_id/timestamp" (named by their space), and
\* one without a "/".
BackupIdArgs == Spaces \cup {"nobackup"}
Categories == {"observation", "bogus"}
VALID_CATEGORIES == {"observation"}
\* Permissions arguments of the admin token tools called at this level.
ToolPermArgs == {<<"read">>, <<>>}

NoCall == [tool |-> "none", ctx |-> NoContext, space_id |-> "", confirm |-> FALSE,
           status |-> "none", message |-> ""]

NoReply == [status |-> "none"]

IdleTk == [pc |-> "idle", op |-> "none", raw |-> UnknownToken,
           store |-> <<>>, hit |-> 0, reply |-> NoReply, wrote |-> FALSE]

\* ------------------------------------------------ the objects of one space
\* The keys of one space, relative to "{space_id}/", in the order
\* list_objects_v2 returns them (UTF-8 binary order).
KeyOrder == <<"_meta.json", "_rules.md", "_synthesis.md", "bank/.keep", "bank/f.md",
              "live/.keep", "live/n1", "live/n2">>
RelKeys == {KeyOrder[i] : i \in 1..Len(KeyOrder)}
NoteKeys == {"live/n1", "live/n2"}
RulesArgs == {"rules A", "rules B"}
NoteContents == {"note x"}
Jobs == {"p1", "p2"}

\* Agent names, as strings of characters over a small alphabet: letters,
\* "-" and "_" (kept by the key's clean-up), a space and a dot (not kept).
AgentChars == {"a", "b", "-", "_", " ", "."}
AgentNames == UNION {[1..n -> AgentChars] : n \in 0..MaxAgentLen}
\* The client_name of the token of the call.
ClientNames == {<<"b">>, <<"b", ".", "a">>}
NoNote == [agent |-> <<>>, client_name |-> <<>>, written |-> FALSE,
           filename_agent |-> <<>>, front_matter_agent |-> <<>>]

NoObjects == [k \in RelKeys |-> Absent]
IdleJob == [tool |-> "none", pc |-> "idle", todo |-> <<>>, arg |-> "", ts |-> 0]
NoRequest == [operation |-> "none", client |-> "none"]
NoToolReply == [tool |-> "none", status |-> "none"]

\* ------------------------------------------------------- the MCP client
\* No response returned yet.
NoReturn == [request |-> 0, response |-> 0, kind |-> "none"]
\* A client object before its first session.
NoSession == [kind |-> "none", pc |-> "none", request_id |-> 0, session_url |-> FALSE,
              initialized |-> FALSE, responses |-> <<>>, posted |-> <<>>,
              init_id |-> 0, got_init |-> FALSE, returned |-> NoReturn]
NoWire == [sse |-> "closed", pending |-> {}]

InitMcp ==
  /\ mcp = NoSession
  /\ wire = NoWire

\* ------------------------------------------------------------ two spaces
\* Two space ids accepted by SPACE_ID_REGEX, one a prefix of the other,
\* as sequences of characters; the rest of a key is kept in pieces.
SpaceX == <<"s">>
SpaceY == <<"s", "2">>
SpaceIds == <<SpaceX, SpaceY>>
\* f"{space_id}/{rel}"
Key(space_id, rel) == space_id \o <<"/">> \o rel
MetaRel == <<"_meta.json">>
SynthesisRel == <<"_synthesis.md">>
BankRel == <<"bank/", "f.md">>
LiveRels == {<<"live/", "n1">>, <<"live/", "n2">>}
Rels == {MetaRel, SynthesisRel, BankRel} \cup LiveRels
BucketKeys == {Key(SpaceIds[i], rel) : i \in DOMAIN SpaceIds, rel \in Rels}
Tasks == {"cx", "cy", "gc"}
TaskSpace == [t \in {"cx", "cy"} |-> IF t = "cx" THEN SpaceX ELSE SpaceY]
IdleTask == [pc |-> "idle", space_id |-> <<>>, notes_keys |-> <<>>, spaces |-> <<>>,
             status |-> "none", details |-> <<>>]

\* Both spaces have been created (their _meta.json counts no
\* consolidation yet), no lock has been asked for, nobody is calling.
InitSpaces ==
  /\ consolidation_locks = {}
  /\ bucket = [k \in BucketKeys |->
                IF \E i \in DOMAIN SpaceIds : k = Key(SpaceIds[i], MetaRel)
                THEN "meta 0" ELSE Absent]
  /\ task = [t \in Tasks |-> IdleTask]

\* --------------------------------------------------------- graph bridge
\* The graph_memory field of _meta.json: None, or a GraphMemoryConfig.
NoGraphMemory == [connected |-> FALSE, push_count |-> 0]
GraphMemoryConfig == [connected |-> TRUE, push_count |-> 0]
FileOrder == <<"a.md", "b.md", "old.md">>
GJobs == {"g1", "c"}
\* The result of a call; for a push also the bank files it listed, whether
\* a document_delete failed and whether it ingested a file that was still
\* on the remote.
NoPush == [status |-> "none", pushed |-> 0, errors |-> 0,
           deleted_before_reingest |-> 0, cleaned |-> 0, files |-> {},
           failed_delete |-> FALSE, undeleted |-> FALSE]
IdleG == [tool |-> "none", pc |-> "idle",
          meta_data |-> [consolidation_count |-> 0, total_notes_processed |-> 0,
                         graph_memory |-> NoGraphMemory],
          todo |-> <<>>, existing_docs |-> {}, orphans |-> <<>>, notes_count |-> 0,
          result |-> NoPush]

\* The space has been created (SpaceMeta: no consolidation, graph_memory
\* None) and its bank holds one file; the remote memory exists and holds a
\* document that is not in the bank.
InitGraph ==
  /\ meta_json = [consolidation_count |-> 0, total_notes_processed |-> 0,
                  graph_memory |-> NoGraphMemory]
  /\ bank_files = {"a.md"}
  /\ remote = {"old.md"}
  /\ gjob = [j \in GJobs |-> IdleG]
  /\ commits = [count |-> 0, notes |-> 0, pushes |-> 0]

\* ---------------------------------------------------- note file names
\* A note file name is "{ts}_{agent}_{category}_{uuid8}.md".  Agent names
\* and file names are kept as the sequence of their "_"-separated pieces
\* (no piece contains a "_"): the string is the pieces joined by "_".
MaxPieces == 2
Pieces == {"a", "b", "observation"}
PieceNames == UNION {[1..n -> Pieces] : n \in 1..MaxPieces}
NoFilter == [pc |-> "args", written_by |-> <<>>, agent |-> <<>>, filename |-> <<>>,
             collected |-> FALSE, extracted |-> <<>>]

InitQuiet == InitSpaces /\ InitGraph /\ gc_young = {}
InitMore == InitQuiet /\ filtered = NoFilter

\* Everything but the objects of the space: nothing has happened yet.
InitRest ==
  /\ registry = <<>>
  /\ tlock = "free"
  /\ tk = [q \in TRequests |-> IdleTk]
  /\ nextTok = 1
  /\ revoked_ok = {}
  /\ granted = <<>>
  /\ spaces = [s \in Spaces |-> NoSpace]
  /\ backups = {}
  /\ call = NoCall
  /\ now = 0
  /\ nextId = 1
  /\ live = {}
  /\ bank = [f \in BankFiles |-> Absent]
  /\ synthesis = NoSynthesis
  /\ meta = [consolidation_count |-> 0, total_notes_processed |-> 0]
  /\ lock = FALSE
  /\ run = [p \in Procs |-> IdleRun]
  /\ delFails = 0

\* No space, no backup, no call in flight.
InitObjects ==
  /\ objects = NoObjects
  /\ backup_objects = [t \in 0..MaxTime |-> NoObjects]
  /\ job = [p \in Jobs |-> IdleJob]
  /\ request = NoRequest
  /\ answer = NoToolReply
  /\ uuids = {}
  /\ deleted = FALSE

Init ==
  /\ InitObjects
  /\ InitRest
  /\ note = NoNote
  /\ gc_before = {}
  /\ InitMcp
  /\ InitMore


\* ------------------------------------------------------------ run helpers
\* First index >= i of a bank_files entry that _write_results writes
\* ("if filename and content"), or Len+1.
Writable(e) == e.filename # "" /\ e.content # ""

NextWritable(files, i) ==
  IF \E j \in i..Len(files) : Writable(files[j])
  THEN CHOOSE j \in i..Len(files) :
         Writable(files[j]) /\ \A h \in i..(j - 1) : ~Writable(files[h])
  ELSE Len(files) + 1

\* Statement order of _write_results.
write_results_order_delete_early ==
  <<"write_bank", "write_synth", "delete", "read_meta", "write_meta", "list_bank">>

write_results_order_meta_first ==
  <<"read_meta", "write_meta", "write_bank", "write_synth", "delete", "list_bank">>

write_results_order_synth_first ==
  <<"write_synth", "write_bank", "read_meta", "write_meta", "delete", "list_bank">>

write_results_order ==
  <<"write_bank", "write_synth", "read_meta", "write_meta", "delete", "list_bank">>

\* A stage without an await is passed through: the bank loop when no entry
\* is writable, delete_many on an empty list.
StageHasWork(s, r) ==
  CASE s = "write_bank" -> NextWritable(r.data.bank_files, 1) <= Len(r.data.bank_files)
    [] s = "delete" -> r.notes_keys # <<>>
    [] OTHER -> TRUE

StagePos(s) == CHOOSE i \in 1..Len(write_results_order) : write_results_order[i] = s

FirstStageFrom(i, r) ==
  write_results_order[CHOOSE j \in i..Len(write_results_order) :
     /\ StageHasWork(write_results_order[j], r)
     /\ \A h \in i..(j - 1) : ~StageHasWork(write_results_order[h], r)]

StageAfter(s, r) == FirstStageFrom(StagePos(s) + 1, r)

\* The keys handed to delete_many.
keys_to_delete_relist(r, liveNow) == SortedKeys(agent_filter(r.agent, liveNow))

keys_to_delete(r, liveNow) == r.notes_keys

\* Record of p entering stage s.
EnterStage(r, s) ==
  [r EXCEPT !.pc = s,
            !.idx = NextWritable(r.data.bank_files, 1),
            !.didx = 1,
            !.del_keys = IF s = "delete" THEN keys_to_delete(r, live) ELSE @]

\* Record of p when its consolidator run ends with res: bank_consolidate
\* returns res, the GC is back in its loop with r = res (or the exception).
EndRec(r, p, res) ==
  IF p \in Callers
  THEN [r EXCEPT !.pc = "done", !.result = res, !.rr = res]
  ELSE [r EXCEPT !.pc = "gc_ret", !.rr = res]

ErrorResult(msg) == [status |-> "error", message |-> msg]

\* A with block that would keep the lock when its body ends.
EndRun_lock_kept(p, r, res) ==
  /\ run' = [run EXCEPT ![p] = EndRec(r, p, res)]
  /\ lock' = lock

\* Leaving "async with lock" with res (return or exception).
EndRun(p, r, res) ==
  /\ run' = [run EXCEPT ![p] = EndRec(r, p, res)]
  /\ lock' = FALSE

\* Record of p entering consolidate(space_id, agent) with the lock taken.
StartRec(r, agent) ==
  [IdleRun EXCEPT !.pc = "collect", !.agent = agent,
                  !.gc_agents = r.gc_agents, !.gc_details = r.gc_details]

AfterCollect == {"llm", "write_bank", "write_synth", "read_meta", "write_meta",
                 "delete", "list_bank"}
InRun(p) == run[p].pc \in AfterCollect \cup {"collect"}

\* A call that has returned is taken off the table, and the result of a GC
\* run is filed, before anything else happens (both steps are local and
\* commute with every other action).
Quiet == \A p \in Procs : run[p].pc \notin {"done", "gc_ret"}

\* ---------------------------------------------------------------- clock
Tick ==
  /\ Quiet
  /\ now < MaxTime
  /\ now' = now + 1
  /\ UNCHANGED <<nextId, live, bank, synthesis, meta, lock, run, delFails, auxvars>>

\* ------------------------------------------------------------- live_note
\* LiveService.write_note: one PUT of a fresh key, no lock.
WriteNote(limit) ==
  /\ Quiet
  /\ nextId <= limit
  /\ \E a \in Agents :
       LET key == NoteKey(now, a, nextId) IN
       /\ live' = live \cup {key}
       /\ run' = [p \in Procs |->
                    IF run[p].pc \in AfterCollect
                    THEN [run[p] EXCEPT !.during = @ \cup {key}]
                    ELSE run[p]]
  /\ nextId' = nextId + 1
  /\ UNCHANGED <<now, bank, synthesis, meta, lock, delFails, auxvars>>

write_note == WriteNote(MaxWritten)

write_note_gc == WriteNote(MaxWrittenGC)

\* ------------------------------------------------------ bank_consolidate
\* Without the lock.locked() test.
bank_consolidate_nocheck(p) ==
  /\ Quiet
  /\ run[p].pc = "idle"
  /\ lock' = TRUE
  /\ run' = [run EXCEPT ![p] = StartRec(run[p], "")]
  /\ UNCHANGED <<now, nextId, live, bank, synthesis, meta, delFails, auxvars>>

\* A call by a token that passes check_access and check_write_permission:
\* lock.locked(), then async with lock, no await between the two.
bank_consolidate(p) ==
  /\ Quiet
  /\ run[p].pc = "idle"
  /\ IF lock
     THEN /\ run' = [run EXCEPT ![p] = [IdleRun EXCEPT !.pc = "done",
                        !.result = [status |-> "conflict"]]]
          /\ lock' = lock
     ELSE /\ lock' = TRUE
          /\ run' = [run EXCEPT ![p] = StartRec(run[p], "")]
  /\ UNCHANGED <<now, nextId, live, bank, synthesis, meta, delFails, auxvars>>

\* The tool call has returned; the caller may call again.
Return(p) ==
  /\ run[p].pc = "done"
  /\ run' = [run EXCEPT ![p] = IdleRun]
  /\ UNCHANGED <<now, nextId, live, bank, synthesis, meta, lock, delFails, auxvars>>

\* -------------------------------------------------------- _collect_inputs
no_notes_never(notes) == FALSE

\* "if not inputs['notes']"
no_notes(notes) == notes = <<>>

collect_inputs(p) ==
  /\ Quiet
  /\ run[p].pc = "collect"
  /\ LET notes_raw == SortedKeys(agent_filter(run[p].agent, live))
         over == Len(notes_raw) > max_notes
         notes == IF over THEN SubSeq(notes_raw, 1, max_notes) ELSE notes_raw
         r == [run[p] EXCEPT !.notes_keys = notes,
                  !.notes_remaining = IF over THEN Len(notes_raw) - max_notes ELSE 0]
     IN IF no_notes(notes)
        THEN EndRun(p, r, [status |-> "ok", notes_processed |-> 0])
        ELSE /\ run' = [run EXCEPT ![p] = [r EXCEPT !.pc = "llm"]]
             /\ lock' = lock
  /\ UNCHANGED <<now, nextId, live, bank, synthesis, meta, delFails, auxvars>>

\* An S3 read of the collection raises.
collect_inputs_fail(p) ==
  /\ Quiet
  /\ run[p].pc = "collect"
  /\ EndRun(p, run[p], ErrorResult("GetObject"))
  /\ UNCHANGED <<now, nextId, live, bank, synthesis, meta, delFails, auxvars>>


\* --------------------------------------------------------------- _call_llm
\* Branches of the loop "for attempt in range(2)" on one response.
call_llm_outcome_lenient(attempt, kind) ==
  CASE kind = "exception" -> [status |-> "error", message |-> "LLM call failed"]
    [] kind = "invalid_json" ->
         IF attempt = 0 THEN [status |-> "retry", message |-> ""]
         ELSE [status |-> "error", message |-> "LLM returned invalid JSON after retry"]
    [] kind = "missing_field" ->
         IF attempt = 0 THEN [status |-> "retry", message |-> ""]
         ELSE [status |-> "ok", message |-> ""]
    [] OTHER -> [status |-> "ok", message |-> ""]

call_llm_outcome_retry_always(attempt, kind) ==
  CASE kind = "exception" -> [status |-> "retry", message |-> ""]
    [] kind = "invalid_json" -> [status |-> "retry", message |-> ""]
    [] kind = "missing_field" -> [status |-> "retry", message |-> ""]
    [] OTHER -> [status |-> "ok", message |-> ""]

call_llm_outcome(attempt, kind) ==
  CASE kind = "exception" -> [status |-> "error", message |-> "LLM call failed"]
    [] kind = "invalid_json" ->
         IF attempt = 0 THEN [status |-> "retry", message |-> ""]
         ELSE [status |-> "error", message |-> "LLM returned invalid JSON after retry"]
    [] kind = "missing_field" ->
         IF attempt = 0 THEN [status |-> "retry", message |-> ""]
         ELSE [status |-> "error",
               message |-> "LLM response missing bank_files or synthesis"]
    [] OTHER -> [status |-> "ok", message |-> ""]

\* One chat-completions request and what consolidate does with its result.
call_llm(p) ==
  /\ Quiet
  /\ run[p].pc = "llm"
  /\ \E resp \in LLMResponses :
       LET out == call_llm_outcome(run[p].attempt, resp.kind)
           r == [run[p] EXCEPT !.requests = @ + 1, !.llm_kind = resp.kind]
       IN CASE out.status = "retry" ->
                 /\ run' = [run EXCEPT ![p] = [r EXCEPT !.attempt = 1]]
                 /\ lock' = lock
            [] out.status = "error" ->
                 EndRun(p, r, ErrorResult(out.message))
            [] OTHER ->
                 LET r2 == [r EXCEPT !.data = resp.data] IN
                 /\ run' = [run EXCEPT ![p] = EnterStage(r2, FirstStageFrom(1, r2))]
                 /\ lock' = lock
  /\ UNCHANGED <<now, nextId, live, bank, synthesis, meta, delFails, auxvars>>

\* ----------------------------------------------------------- _write_results
\* Leave stage s: enter the next one.
Advance(p, r, s) ==
  /\ run' = [run EXCEPT ![p] = EnterStage(r, StageAfter(s, r))]
  /\ lock' = lock

Logged(r, op) == [r EXCEPT !.ops = Append(@, op)]

\* 4a. one storage.put of a bank file
write_bank(p) ==
  /\ Quiet
  /\ run[p].pc = "write_bank"
  /\ LET files == run[p].data.bank_files
         e == files[run[p].idx]
         nxt == NextWritable(files, run[p].idx + 1)
         r == [Logged(run[p], <<"put_bank", e.filename>>) EXCEPT
                 !.files_created = IF e.action = "created" THEN @ + 1 ELSE @,
                 !.files_updated = IF e.action = "created" THEN @ ELSE @ + 1]
     IN /\ bank' = [bank EXCEPT ![e.filename] = e.content]
        /\ IF nxt <= Len(files)
           THEN /\ run' = [run EXCEPT ![p] = [r EXCEPT !.idx = nxt]]
                /\ lock' = lock
           ELSE Advance(p, r, "write_bank")
  /\ UNCHANGED <<now, nextId, live, synthesis, meta, delFails, auxvars>>

\* 4b. storage.put of _synthesis.md
write_synth(p) ==
  /\ Quiet
  /\ run[p].pc = "write_synth"
  /\ synthesis' = [notes_processed |-> Len(run[p].notes_keys),
                   content |-> run[p].data.synthesis]
  /\ Advance(p, Logged(run[p], <<"put_synth", "_synthesis.md">>), "write_synth")
  /\ UNCHANGED <<now, nextId, live, bank, meta, delFails, auxvars>>

\* 4c. storage.get_json of _meta.json
read_meta(p) ==
  /\ Quiet
  /\ run[p].pc = "read_meta"
  /\ Advance(p, [run[p] EXCEPT !.meta_rd = meta], "read_meta")
  /\ UNCHANGED <<now, nextId, live, bank, synthesis, meta, delFails, auxvars>>

\* 4c. storage.put_json of the updated counters
write_meta(p) ==
  /\ Quiet
  /\ run[p].pc = "write_meta"
  /\ meta' = [consolidation_count |-> run[p].meta_rd.consolidation_count + 1,
              total_notes_processed |->
                 run[p].meta_rd.total_notes_processed + Len(run[p].notes_keys)]
  /\ Advance(p, Logged(run[p], <<"put_meta", "_meta.json">>), "write_meta")
  /\ UNCHANGED <<now, nextId, live, bank, synthesis, delFails, auxvars>>

\* A put of _write_results raises (bank file, synthesis or meta).
put_fail(p) ==
  /\ Quiet
  /\ run[p].pc \in {"write_bank", "write_synth", "write_meta"}
  /\ EndRun(p, run[p], ErrorResult("PutObject"))
  /\ UNCHANGED <<now, nextId, live, bank, synthesis, meta, delFails, auxvars>>

\* The get of _meta.json raises.
read_meta_fail(p) ==
  /\ Quiet
  /\ run[p].pc = "read_meta"
  /\ EndRun(p, run[p], ErrorResult("GetObject"))
  /\ UNCHANGED <<now, nextId, live, bank, synthesis, meta, delFails, auxvars>>

\* 4d. delete_many: one storage.delete; a failure is swallowed.
AfterDelete(p, r) ==
  IF r.didx < Len(r.del_keys)
  THEN /\ run' = [run EXCEPT ![p] = [r EXCEPT !.didx = @ + 1]]
       /\ lock' = lock
  ELSE Advance(p, r, "delete")

delete_note(p) ==
  /\ Quiet
  /\ run[p].pc = "delete"
  /\ LET key == run[p].del_keys[run[p].didx] IN
     /\ live' = live \ {key}
     /\ AfterDelete(p, Logged(run[p], <<"del", key>>))
  /\ UNCHANGED <<now, nextId, bank, synthesis, meta, delFails, auxvars>>

delete_note_fail(p) ==
  /\ Quiet
  /\ run[p].pc = "delete"
  /\ delFails < MaxDelFail
  /\ delFails' = delFails + 1
  /\ LET key == run[p].del_keys[run[p].didx] IN
     AfterDelete(p, Logged(run[p], <<"del_failed", key>>))
  /\ UNCHANGED <<now, nextId, live, bank, synthesis, meta, auxvars>>

Max0(n) == IF n > 0 THEN n ELSE 0

\* storage.list_objects of bank/ and the metrics returned.
list_bank(p) ==
  /\ Quiet
  /\ run[p].pc = "list_bank"
  /\ LET total_bank == Cardinality({f \in BankFiles : bank[f] # Absent})
         r == run[p]
     IN EndRun(p, r,
          [status |-> "ok",
           notes_processed |-> Len(r.notes_keys),
           bank_files_updated |-> r.files_updated,
           bank_files_created |-> r.files_created,
           bank_files_unchanged |-> Max0(total_bank - r.files_created - r.files_updated)])
  /\ UNCHANGED <<now, nextId, live, bank, synthesis, meta, delFails, auxvars>>

list_bank_fail(p) ==
  /\ Quiet
  /\ run[p].pc = "list_bank"
  /\ EndRun(p, run[p], ErrorResult("ListObjectsV2"))
  /\ UNCHANGED <<now, nextId, live, bank, synthesis, meta, delFails, auxvars>>

\* ------------------------------------------- admin_gc_notes (consolidate)
\* scan_old_notes: notes whose timestamp is before now - max_age_days.
ScanNotes(max_age_days, last_id) ==
  /\ Quiet
  /\ run["gc"].pc = "idle"
  /\ \E max_age \in max_age_days :
       LET old == {k \in live : k.ts < now - max_age} IN
       /\ nextId + Cardinality({extract_agent(k) : k \in old}) <= last_id
       /\ IF old = {}
          THEN run' = [run EXCEPT !["gc"] = [IdleRun EXCEPT !.pc = "gc_done",
                          !.result = [status |-> "ok", consolidated |-> 0]]]
          ELSE run' = [run EXCEPT !["gc"] = [IdleRun EXCEPT !.pc = "gc_loop",
                          !.gc_agents = AgentsInOrder(SortedKeys(old))]]

ScanOldNotes(max_age_days) == ScanNotes(max_age_days, MaxWrittenGC + 2)

gc_scan ==
  /\ ScanOldNotes({0, 1})
  /\ UNCHANGED <<now, nextId, live, bank, synthesis, meta, lock, delFails, auxvars>>

\* admin_gc_notes(max_age_days=0, confirm=true, delete_only=false); the
\* notes of earlier seconds that exist at the call are remembered.
gc_scan_now ==
  /\ ScanOldNotes({0})
  /\ gc_before' = {k \in live : k.ts < now}
  /\ UNCHANGED <<now, nextId, live, bank, synthesis, meta, lock, delFails,
                 tokvars, toolvars, storevars, note, mcpvars, morevars>>

\* consolidation_results[sid][agent_name] = {status: r.get("status"), ...}
gc_record ==
  /\ run["gc"].pc = "gc_ret"
  /\ run' = [run EXCEPT !["gc"] = [IdleRun EXCEPT !.pc = "gc_loop",
                 !.gc_agents = run["gc"].gc_agents,
                 !.gc_details = Append(run["gc"].gc_details,
                    [agent |-> run["gc"].agent, status |-> run["gc"].rr.status])]]
  /\ UNCHANGED <<now, nextId, live, bank, synthesis, meta, lock, delFails, auxvars>>

\* Next agent of by_agent: write the GC notice as that agent (one PUT),
\* or leave the loop and return the report.
gc_notice ==
  /\ Quiet
  /\ run["gc"].pc = "gc_loop"
  /\ IF run["gc"].gc_agents = <<>>
     THEN /\ run' = [run EXCEPT !["gc"] = [IdleRun EXCEPT !.pc = "gc_done",
                         !.gc_details = run["gc"].gc_details,
                         !.result = [status |-> "ok"]]]
          /\ UNCHANGED <<live, nextId>>
     ELSE LET key == NoteKey(now, run["gc"].gc_agents[1], nextId) IN
          /\ live' = live \cup {key}
          /\ nextId' = nextId + 1
          /\ run' = [run EXCEPT !["gc"] = [IdleRun EXCEPT !.pc = "gc_lock",
                         !.gc_agents = run["gc"].gc_agents,
                         !.gc_details = run["gc"].gc_details]]
  /\ UNCHANGED <<now, bank, synthesis, meta, lock, delFails, auxvars>>

\* Without the lock.locked() test: the collector consolidates anyway.
gc_try_lock_nocheck ==
  /\ Quiet
  /\ run["gc"].pc = "gc_lock"
  /\ run' = [run EXCEPT !["gc"] =
               StartRec([run["gc"] EXCEPT !.gc_agents = Tail(@)], run["gc"].gc_agents[1])]
  /\ lock' = TRUE
  /\ UNCHANGED <<now, nextId, live, bank, synthesis, meta, delFails, auxvars>>

\* Back from write_note: lock.locked() -> skipped, else consolidate(agent).
gc_try_lock ==
  /\ Quiet
  /\ run["gc"].pc = "gc_lock"
  /\ LET a == run["gc"].gc_agents[1]
         r == [run["gc"] EXCEPT !.gc_agents = Tail(@)]
     IN IF lock
        THEN /\ run' = [run EXCEPT !["gc"] = [r EXCEPT !.pc = "gc_loop",
                          !.gc_details = Append(@, [agent |-> a, status |-> "skipped"])]]
             /\ lock' = lock
        ELSE /\ run' = [run EXCEPT !["gc"] = StartRec(r, a)]
             /\ lock' = TRUE
  /\ UNCHANGED <<now, nextId, live, bank, synthesis, meta, delFails, auxvars>>

\* ------------------------------------------------------- token registry
\* A request reads _system/tokens.json once (_load_store) and runs up to
\* its _save_store or its return; the read is taken at the call.  Requests
\* that wait for the token mutex have done nothing yet: they are idle.
consvars == <<now, nextId, live, bank, synthesis, meta, lock, run, delFails, toolvars,
             extvars>>

\* A request that has returned is taken off the table at once.
TQuiet == \A q \in TRequests : tk[q].pc # "done"

Reply(r, reply) == [r EXCEPT !.pc = "done", !.reply = reply]

Saving(op, raw, store, hit) ==
  [IdleTk EXCEPT !.pc = "save", !.op = op, !.raw = raw, !.store = store, !.hit = hit]

\* admin_create_token -> TokenService.create_token, up to _save_store.
tok_create(q) ==
  /\ TQuiet
  /\ tk[q].pc = "idle"
  /\ nextTok <= MaxTokens
  /\ \E name \in TokenNames, perms \in PermArgs, sids \in SpaceArgs, days \in {0, 1} :
       LET raw == RawToken(nextTok)
           perm_list == parse_list(perms)
           info == TokenInfo(sha256(raw), name, perm_list, parse_list(sids),
                             IF days > 0 THEN now ELSE NoTime)
       IN IF perm_list = <<>>
          THEN /\ tk' = [tk EXCEPT ![q] = Reply([IdleTk EXCEPT !.op = "create"],
                           [status |-> "error", message |-> "Permissions requises"])]
               /\ UNCHANGED tlock
          ELSE /\ tlock = "free"
               /\ tlock' = q
               /\ tk' = [tk EXCEPT ![q] =
                           Saving("create", raw, Append(registry, info), Len(registry) + 1)]
  /\ nextTok' = nextTok + 1
  /\ UNCHANGED <<registry, revoked_ok, granted, consvars>>

\* admin_revoke_token -> TokenService.revoke_token, up to _save_store.
tok_revoke(q) ==
  /\ TQuiet
  /\ tk[q].pc = "idle"
  /\ tlock = "free"
  /\ \E token_hash \in HashArgs :
       LET hit == FirstIndex(registry, LAMBDA t : hash_matches(t.hash, token_hash))
       IN IF hit = 0
          THEN /\ tk' = [tk EXCEPT ![q] = Reply([IdleTk EXCEPT !.op = "revoke"],
                           [status |-> "not_found", message |-> "Token introuvable"])]
               /\ UNCHANGED tlock
          ELSE /\ tlock' = q
               /\ tk' = [tk EXCEPT ![q] = Saving("revoke", UnknownToken,
                           [registry EXCEPT ![hit].revoked = TRUE], hit)]
  /\ UNCHANGED <<registry, nextTok, revoked_ok, granted, consvars>>

\* admin_update_token -> TokenService.update_token, up to _save_store.
tok_update(q) ==
  /\ TQuiet
  /\ tk[q].pc = "idle"
  /\ tlock = "free"
  /\ \E token_hash \in HashArgs, perms \in PermArgs, sids \in SpaceArgs :
       LET hit == FirstIndex(registry, LAMBDA t : hash_matches(t.hash, token_hash))
       IN IF hit = 0
          THEN /\ tk' = [tk EXCEPT ![q] = Reply([IdleTk EXCEPT !.op = "update"],
                           [status |-> "not_found", message |-> "Token introuvable"])]
               /\ UNCHANGED tlock
          ELSE /\ tlock' = q
               /\ tk' = [tk EXCEPT ![q] = Saving("update", UnknownToken,
                           [registry EXCEPT
                              ![hit].permissions = IF perms # <<>>
                                                   THEN parse_list_keep_empty(perms) ELSE @,
                              ![hit].space_ids = IF sids # <<>>
                                                 THEN parse_list_keep_empty(sids) ELSE @],
                           hit)]
  /\ UNCHANGED <<registry, nextTok, revoked_ok, granted, consvars>>

\* A cleartext a client can present: one a create response has returned,
\* or a string that was never issued.
Presentable == {r \in Issued : sha256(r) \in DOMAIN granted} \cup {UnknownToken}

ValidReply(t) ==
  [status |-> "valid", client_name |-> t.name, permissions |-> t.permissions,
   allowed_resources |-> t.space_ids]

\* The checks of validate_token on the entry whose hash is token_hash.
rejects(tokens, hit) ==
  \/ hit = 0
  \/ tokens[hit].revoked
  \/ (tokens[hit].expires_at # NoTime /\ tokens[hit].expires_at < now)

\* AuthMiddleware._validate_token -> TokenService.validate_token, up to its
\* _save_store (no lock).
tok_validate(q) ==
  /\ TQuiet
  /\ tk[q].pc = "idle"
  /\ \E raw \in Presentable :
       LET hit == FirstIndex(registry, LAMBDA t : t.hash = sha256(raw))
       IN IF rejects(registry, hit)
          THEN tk' = [tk EXCEPT ![q] = Reply([IdleTk EXCEPT !.op = "validate", !.raw = raw],
                                             [status |-> None])]
          ELSE tk' = [tk EXCEPT ![q] = Saving("validate", raw,
                         [registry EXCEPT ![hit].last_used_at = now], hit)]
  /\ UNCHANGED <<registry, tlock, nextTok, revoked_ok, granted, consvars>>

\* "hash": t.hash[:20] + "...".
truncated(h) ==
  CASE h = "sha256:d1" -> "sha256:d1..." [] h = "sha256:d2" -> "sha256:d2..."
    [] h = "sha256:d3" -> "sha256:d3..." [] OTHER -> "..."

listed(t) ==
  [hash |-> truncated(t.hash), name |-> t.name, permissions |-> t.permissions,
   space_ids |-> t.space_ids, expires_at |-> t.expires_at,
   last_used_at |-> t.last_used_at, revoked |-> t.revoked]

\* admin_list_tokens -> TokenService.list_tokens (no lock, no write).
tok_list(q) ==
  /\ TQuiet
  /\ tk[q].pc = "idle"
  /\ tk' = [tk EXCEPT ![q] = Reply([IdleTk EXCEPT !.op = "list"],
              [status |-> "ok", total |-> Len(registry),
               tokens |-> [i \in 1..Len(registry) |-> listed(registry[i])]])]
  /\ UNCHANGED <<registry, tlock, nextTok, revoked_ok, granted, consvars>>

\* _load_store raises: an admin tool answers status=error, the middleware
\* takes the token for invalid.
tok_load_fail(q) ==
  /\ TQuiet
  /\ tk[q].pc = "idle"
  /\ \E op \in {"revoke", "update", "validate", "list"} :
       tk' = [tk EXCEPT ![q] = Reply([IdleTk EXCEPT !.op = op],
                IF op = "validate" THEN [status |-> None]
                ELSE [status |-> "error", message |-> "GetObject"])]
  /\ UNCHANGED <<registry, tlock, nextTok, revoked_ok, granted, consvars>>

Release(q) == tlock' = IF tlock = q THEN "free" ELSE tlock

Granted(h, t) ==
  [x \in DOMAIN granted \cup {h} |->
     IF x = h THEN [name |-> t.name, permissions |-> t.permissions,
                    space_ids |-> t.space_ids]
     ELSE granted[x]]

\* _save_store returns: the registry object is replaced by the store this
\* request loaded and modified; the request returns.
tok_save(q) ==
  /\ TQuiet
  /\ tk[q].pc = "save"
  /\ registry' = tk[q].store
  /\ LET r == [tk[q] EXCEPT !.wrote = TRUE]
         t == r.store[r.hit]
     IN CASE r.op = "create" ->
               /\ tk' = [tk EXCEPT ![q] = Reply(r,
                           [status |-> "created", name |-> t.name, token |-> r.raw,
                            permissions |-> t.permissions, space_ids |-> t.space_ids,
                            expires_at |-> t.expires_at])]
               /\ granted' = Granted(t.hash, t)
               /\ UNCHANGED revoked_ok
          [] r.op = "revoke" ->
               /\ tk' = [tk EXCEPT ![q] = Reply(r,
                           [status |-> "ok", message |-> "Token revoque"])]
               /\ revoked_ok' = revoked_ok \cup {t.hash}
               /\ UNCHANGED granted
          [] r.op = "update" ->
               /\ tk' = [tk EXCEPT ![q] = Reply(r,
                           [status |-> "ok", message |-> "Token mis a jour"])]
               /\ granted' = Granted(t.hash, t)
               /\ UNCHANGED revoked_ok
          [] OTHER ->
               /\ tk' = [tk EXCEPT ![q] = Reply(r, ValidReply(t))]
               /\ UNCHANGED <<revoked_ok, granted>>
  /\ Release(q)
  /\ UNCHANGED <<nextTok, consvars>>

\* _save_store raises: create / revoke / update answer status=error,
\* validate ignores it ("best effort").
tok_save_fail(q) ==
  /\ TQuiet
  /\ tk[q].pc = "save"
  /\ tk' = [tk EXCEPT ![q] = Reply(tk[q],
              IF tk[q].op = "validate" THEN ValidReply(tk[q].store[tk[q].hit])
              ELSE [status |-> "error", message |-> "PutObject"])]
  /\ Release(q)
  /\ UNCHANGED <<registry, nextTok, revoked_ok, granted, consvars>>

tok_return(q) ==
  /\ tk[q].pc = "done"
  /\ tk' = [tk EXCEPT ![q] = IdleTk]
  /\ UNCHANGED <<registry, tlock, nextTok, revoked_ok, granted, consvars>>

\* ------------------------------------------------------------- MCP tools
\* One action per tool: the whole handler, from its permission checks to
\* its return.  The services' storage calls either all succeed or the
\* first one raises (fails), which every handler turns into status=error.
\* Bank files and the content of notes are not followed at this level.
nontool == <<now, nextId, live, bank, synthesis, meta, lock, run, delFails, tlock, tk,
            extvars>>
regvars == <<registry, nextTok, revoked_ok, granted>>

Authentification == "Authentification requise"
AccesRefuse == "Acces refuse a l'espace"
WriteRequise == "Permission 'write' requise"
AdminRequise == "Permission 'admin' requise"
S3Error == "S3"

check_access_anonymous(ctx, resource_id) ==
  IF ctx = NoContext THEN None
  ELSE IF "admin" \in Range(ctx[1].permissions) THEN None
  ELSE IF ctx[1].allowed_resources # <<>>
          /\ resource_id \notin Range(ctx[1].allowed_resources) THEN AccesRefuse
  ELSE None

check_access(ctx, resource_id) ==
  IF ctx = NoContext THEN Authentification
  ELSE IF "admin" \in Range(ctx[1].permissions) THEN None
  ELSE IF ctx[1].allowed_resources # <<>>
          /\ resource_id \notin Range(ctx[1].allowed_resources) THEN AccesRefuse
  ELSE None

check_write_permission(ctx) ==
  IF ctx = NoContext THEN Authentification
  ELSE IF "write" \in Range(ctx[1].permissions) \/ "admin" \in Range(ctx[1].permissions)
  THEN None
  ELSE WriteRequise

check_admin_permission(ctx) ==
  IF ctx = NoContext THEN Authentification
  ELSE IF "admin" \in Range(ctx[1].permissions) THEN None
  ELSE AdminRequise

\* "if token_info is None: return error" of space_list, backup_list and
\* backup_download.
check_token(ctx) == IF ctx = NoContext THEN Authentification ELSE None

ConfirmRequis == "confirm=True requis"

confirm_required_ignored(confirm) == None

\* "if not confirm: return error" of the destructive tools.
confirm_required(confirm) == IF ~confirm THEN ConfirmRequis ELSE None

\* The first check of a handler that does not return None.
FirstError(checks) ==
  LET bad == {i \in 1..Len(checks) : checks[i] # None}
  IN IF bad = {} THEN None
     ELSE checks[CHOOSE i \in bad : \A j \in bad : i <= j]

\* The handler returns {status, message}; sp and bk are the spaces and
\* backups it leaves behind.  A returned call is taken off the table
\* (tool_return) before the next one is made.
AnswerWith(tool, ctx, sid, confirm, status, message, sp, bk) ==
  /\ call = NoCall
  /\ call' = [tool |-> tool, ctx |-> ctx, space_id |-> sid, confirm |-> confirm,
              status |-> status, message |-> message]
  /\ spaces' = sp
  /\ backups' = bk
  /\ UNCHANGED <<regvars, nontool>>

Answer(tool, ctx, sid, confirm, status, message) ==
  AnswerWith(tool, ctx, sid, confirm, status, message, spaces, backups)

tool_return ==
  /\ call # NoCall
  /\ call' = NoCall
  /\ UNCHANGED <<spaces, backups, regvars, nontool>>

\* ---- system
system_health ==
  /\ call = NoCall
  /\ \E ctx \in Contexts, all_ok \in BOOLEAN :
    Answer("system_health", ctx, "", FALSE, IF all_ok THEN "ok" ELSE "degraded", "")

system_about ==
  /\ call = NoCall
  /\ \E ctx \in Contexts : Answer("system_about", ctx, "", FALSE, "ok", "")

\* ---- space
space_create ==
  /\ call = NoCall
  /\ \E ctx \in Contexts, sid \in SpaceIdArgs, fails \in BOOLEAN :
    LET err == check_write_permission(ctx)
    IN IF err # None THEN Answer("space_create", ctx, sid, FALSE, "error", err)
       ELSE IF ~SPACE_ID_REGEX(sid)
       THEN Answer("space_create", ctx, sid, FALSE, "error", "space_id invalide")
       ELSE IF fails THEN Answer("space_create", ctx, sid, FALSE, "error", S3Error)
       ELSE IF spaces[sid].exists
       THEN Answer("space_create", ctx, sid, FALSE, "already_exists", "")
       ELSE AnswerWith("space_create", ctx, sid, FALSE, "created", "",
                       [spaces EXCEPT ![sid] = NewSpace], backups)

space_list ==
  /\ call = NoCall
  /\ \E ctx \in Contexts, fails \in BOOLEAN :
    LET err == check_token(ctx)
    IN IF err # None THEN Answer("space_list", ctx, "", FALSE, "error", err)
       ELSE IF fails THEN Answer("space_list", ctx, "", FALSE, "error", S3Error)
       ELSE Answer("space_list", ctx, "", FALSE, "ok", "")

\* The tools that check_access and then read one space.
ReadSpace(tool) ==
  /\ call = NoCall
  /\ \E ctx \in Contexts, sid \in Spaces, fails \in BOOLEAN :
    LET err == check_access(ctx, sid)
    IN IF err # None THEN Answer(tool, ctx, sid, FALSE, "error", err)
       ELSE IF fails THEN Answer(tool, ctx, sid, FALSE, "error", S3Error)
       ELSE IF ~spaces[sid].exists THEN Answer(tool, ctx, sid, FALSE, "not_found", "")
       ELSE Answer(tool, ctx, sid, FALSE, "ok", "")

space_info == ReadSpace("space_info")
space_rules == ReadSpace("space_rules")
space_summary == ReadSpace("space_summary")
space_export == ReadSpace("space_export")

space_delete ==
  /\ call = NoCall
  /\ \E ctx \in Contexts, sid \in Spaces, confirm \in BOOLEAN, fails \in BOOLEAN :
    LET err == FirstError(<<check_access(ctx, sid), check_admin_permission(ctx),
                            confirm_required(confirm)>>)
    IN IF err # None THEN Answer("space_delete", ctx, sid, confirm, "error", err)
       ELSE IF fails THEN Answer("space_delete", ctx, sid, confirm, "error", S3Error)
       ELSE IF ~spaces[sid].exists
       THEN Answer("space_delete", ctx, sid, confirm, "not_found", "")
       ELSE AnswerWith("space_delete", ctx, sid, confirm, "deleted", "",
                       [spaces EXCEPT ![sid] = NoSpace], backups)

\* ---- live
live_note ==
  /\ call = NoCall
  /\ \E ctx \in Contexts, sid \in Spaces, category \in Categories, fails \in BOOLEAN :
    LET err == FirstError(<<check_access(ctx, sid), check_write_permission(ctx)>>)
    IN IF err # None THEN Answer("live_note", ctx, sid, FALSE, "error", err)
       ELSE IF category \notin VALID_CATEGORIES
       THEN Answer("live_note", ctx, sid, FALSE, "error", "Categorie invalide")
       ELSE IF fails THEN Answer("live_note", ctx, sid, FALSE, "error", S3Error)
       ELSE IF ~spaces[sid].exists
       THEN Answer("live_note", ctx, sid, FALSE, "not_found", "")
       ELSE /\ spaces[sid].notes < MaxWrittenGC
            /\ AnswerWith("live_note", ctx, sid, FALSE, "created", "",
                          [spaces EXCEPT ![sid].notes = @ + 1], backups)

live_read == ReadSpace("live_read")
live_search == ReadSpace("live_search")

\* ---- bank
\* storage.get of a bank file: None when the file (or the space) is absent.
bank_read ==
  /\ call = NoCall
  /\ \E ctx \in Contexts, sid \in Spaces, present \in BOOLEAN, fails \in BOOLEAN :
    LET err == check_access(ctx, sid)
    IN IF err # None THEN Answer("bank_read", ctx, sid, FALSE, "error", err)
       ELSE IF fails THEN Answer("bank_read", ctx, sid, FALSE, "error", S3Error)
       ELSE IF ~(spaces[sid].exists /\ present)
       THEN Answer("bank_read", ctx, sid, FALSE, "not_found", "")
       ELSE Answer("bank_read", ctx, sid, FALSE, "ok", "")

bank_read_all == ReadSpace("bank_read_all")
bank_list == ReadSpace("bank_list")

\* locked: another consolidation of the space holds its lock.  The
\* consolidator removes the notes it has integrated (left: what remains).
tool_bank_consolidate ==
  /\ call = NoCall
  /\ \E ctx \in Contexts, sid \in Spaces, locked \in BOOLEAN, fails \in BOOLEAN :
    LET err == FirstError(<<check_access(ctx, sid), check_write_permission(ctx)>>)
    IN IF err # None THEN Answer("bank_consolidate", ctx, sid, FALSE, "error", err)
       ELSE IF locked THEN Answer("bank_consolidate", ctx, sid, FALSE, "conflict", "")
       ELSE IF fails THEN Answer("bank_consolidate", ctx, sid, FALSE, "error", S3Error)
       ELSE IF ~spaces[sid].exists
       THEN Answer("bank_consolidate", ctx, sid, FALSE, "error", "Espace introuvable")
       ELSE \E left \in 0..spaces[sid].notes :
              AnswerWith("bank_consolidate", ctx, sid, FALSE, "ok", "",
                         [spaces EXCEPT ![sid].notes = left], backups)

\* ---- graph
graph_connect ==
  /\ call = NoCall
  /\ \E ctx \in Contexts, sid \in Spaces, fails \in BOOLEAN :
    LET err == FirstError(<<check_access(ctx, sid), check_write_permission(ctx)>>)
    IN IF err # None THEN Answer("graph_connect", ctx, sid, FALSE, "error", err)
       ELSE IF fails THEN Answer("graph_connect", ctx, sid, FALSE, "error", S3Error)
       ELSE IF ~spaces[sid].exists
       THEN Answer("graph_connect", ctx, sid, FALSE, "not_found", "")
       ELSE AnswerWith("graph_connect", ctx, sid, FALSE, "connected", "",
                       [spaces EXCEPT ![sid].graph = TRUE], backups)

graph_push ==
  /\ call = NoCall
  /\ \E ctx \in Contexts, sid \in Spaces, fails \in BOOLEAN :
    LET err == FirstError(<<check_access(ctx, sid), check_write_permission(ctx)>>)
    IN IF err # None THEN Answer("graph_push", ctx, sid, FALSE, "error", err)
       ELSE IF fails THEN Answer("graph_push", ctx, sid, FALSE, "error", S3Error)
       ELSE IF ~spaces[sid].exists
       THEN Answer("graph_push", ctx, sid, FALSE, "not_found", "")
       ELSE IF ~spaces[sid].graph
       THEN Answer("graph_push", ctx, sid, FALSE, "error", "non connecte")
       ELSE Answer("graph_push", ctx, sid, FALSE, "ok", "")

graph_status == ReadSpace("graph_status")

graph_disconnect ==
  /\ call = NoCall
  /\ \E ctx \in Contexts, sid \in Spaces, fails \in BOOLEAN :
    LET err == FirstError(<<check_access(ctx, sid), check_write_permission(ctx)>>)
    IN IF err # None THEN Answer("graph_disconnect", ctx, sid, FALSE, "error", err)
       ELSE IF fails THEN Answer("graph_disconnect", ctx, sid, FALSE, "error", S3Error)
       ELSE IF ~spaces[sid].exists
       THEN Answer("graph_disconnect", ctx, sid, FALSE, "not_found", "")
       ELSE IF ~spaces[sid].graph
       THEN Answer("graph_disconnect", ctx, sid, FALSE, "ok", "pas connecte")
       ELSE AnswerWith("graph_disconnect", ctx, sid, FALSE, "disconnected", "",
                       [spaces EXCEPT ![sid].graph = FALSE], backups)

\* ---- backup
backup_create ==
  /\ call = NoCall
  /\ \E ctx \in Contexts, sid \in Spaces, fails \in BOOLEAN :
    LET err == FirstError(<<check_access(ctx, sid), check_write_permission(ctx)>>)
    IN IF err # None THEN Answer("backup_create", ctx, sid, FALSE, "error", err)
       ELSE IF fails THEN Answer("backup_create", ctx, sid, FALSE, "error", S3Error)
       ELSE IF ~spaces[sid].exists
       THEN Answer("backup_create", ctx, sid, FALSE, "not_found", "")
       ELSE AnswerWith("backup_create", ctx, sid, FALSE, "created", "",
                       spaces, backups \cup {sid})

backup_list ==
  /\ call = NoCall
  /\ \E ctx \in Contexts, sid \in Spaces \cup {""}, fails \in BOOLEAN :
    LET err == check_token(ctx)
    IN IF err # None THEN Answer("backup_list", ctx, sid, FALSE, "error", err)
       ELSE IF fails THEN Answer("backup_list", ctx, sid, FALSE, "error", S3Error)
       ELSE Answer("backup_list", ctx, sid, FALSE, "ok", "")

\* The restored space holds what the space held when the backup was made.
backup_restore ==
  /\ call = NoCall
  /\ \E ctx \in Contexts, bid \in BackupIdArgs, confirm \in BOOLEAN, fails \in BOOLEAN :
    LET err == FirstError(<<check_admin_permission(ctx), confirm_required(confirm)>>)
    IN IF err # None THEN Answer("backup_restore", ctx, bid, confirm, "error", err)
       ELSE IF bid \notin Spaces
       THEN Answer("backup_restore", ctx, bid, confirm, "error", "backup_id invalide")
       ELSE IF fails THEN Answer("backup_restore", ctx, bid, confirm, "error", S3Error)
       ELSE IF bid \notin backups
       THEN Answer("backup_restore", ctx, bid, confirm, "not_found", "")
       ELSE IF spaces[bid].exists
       THEN Answer("backup_restore", ctx, bid, confirm, "error", "existe deja")
       ELSE \E snapshot \in SpaceRecords :
              AnswerWith("backup_restore", ctx, bid, confirm, "ok", "",
                         [spaces EXCEPT ![bid] = snapshot], backups)

backup_download ==
  /\ call = NoCall
  /\ \E ctx \in Contexts, bid \in BackupIdArgs, fails \in BOOLEAN :
    LET err == check_token(ctx)
    IN IF err # None THEN Answer("backup_download", ctx, bid, FALSE, "error", err)
       ELSE IF bid \notin Spaces
       THEN Answer("backup_download", ctx, bid, FALSE, "error", "backup_id invalide")
       ELSE IF fails THEN Answer("backup_download", ctx, bid, FALSE, "error", S3Error)
       ELSE IF bid \notin backups
       THEN Answer("backup_download", ctx, bid, FALSE, "not_found", "")
       ELSE Answer("backup_download", ctx, bid, FALSE, "ok", "")

backup_delete ==
  /\ call = NoCall
  /\ \E ctx \in Contexts, bid \in BackupIdArgs, confirm \in BOOLEAN, fails \in BOOLEAN :
    LET err == FirstError(<<check_admin_permission(ctx), confirm_required(confirm)>>)
    IN IF err # None THEN Answer("backup_delete", ctx, bid, confirm, "error", err)
       ELSE IF bid \notin Spaces
       THEN Answer("backup_delete", ctx, bid, confirm, "error", "backup_id invalide")
       ELSE IF fails THEN Answer("backup_delete", ctx, bid, confirm, "error", S3Error)
       ELSE IF bid \notin backups
       THEN Answer("backup_delete", ctx, bid, confirm, "not_found", "")
       ELSE AnswerWith("backup_delete", ctx, bid, confirm, "deleted", "",
                       spaces, backups \ {bid})

\* ---- admin
\* The handler returns after TokenService has run to its end; reg is the
\* registry it leaves behind.
AnswerToken(tool, ctx, status, message, reg, created, gr, rv) ==
  /\ call = NoCall
  /\ call' = [tool |-> tool, ctx |-> ctx, space_id |-> "", confirm |-> FALSE,
              status |-> status, message |-> message]
  /\ registry' = reg
  /\ nextTok' = nextTok + created
  /\ granted' = gr
  /\ revoked_ok' = rv
  /\ UNCHANGED <<spaces, backups, nontool>>

Refused(tool, ctx, status, message) ==
  AnswerToken(tool, ctx, status, message, registry, 0, granted, revoked_ok)

admin_create_token ==
  /\ call = NoCall
  /\ \E ctx \in Contexts, name \in TokenNames, perms \in ToolPermArgs, fails \in BOOLEAN :
    LET err == check_admin_permission(ctx)
        perm_list == parse_list(perms)
        info == TokenInfo(sha256(RawToken(nextTok)), name, perm_list, <<>>, NoTime)
    IN IF err # None THEN Refused("admin_create_token", ctx, "error", err)
       ELSE IF perm_list = <<>>
       THEN Refused("admin_create_token", ctx, "error", "Permissions requises")
       ELSE IF fails THEN Refused("admin_create_token", ctx, "error", S3Error)
       ELSE /\ nextTok <= MaxTokens
            /\ AnswerToken("admin_create_token", ctx, "created", "",
                           Append(registry, info), 1, Granted(info.hash, info),
                           revoked_ok)

admin_list_tokens ==
  /\ call = NoCall
  /\ \E ctx \in Contexts, fails \in BOOLEAN :
    LET err == check_admin_permission(ctx)
    IN IF err # None THEN Refused("admin_list_tokens", ctx, "error", err)
       ELSE IF fails THEN Refused("admin_list_tokens", ctx, "error", S3Error)
       ELSE Refused("admin_list_tokens", ctx, "ok", "")

admin_revoke_token ==
  /\ call = NoCall
  /\ \E ctx \in Contexts, token_hash \in HashArgs, fails \in BOOLEAN :
    LET err == check_admin_permission(ctx)
        hit == FirstIndex(registry, LAMBDA t : hash_matches(t.hash, token_hash))
    IN IF err # None THEN Refused("admin_revoke_token", ctx, "error", err)
       ELSE IF fails THEN Refused("admin_revoke_token", ctx, "error", S3Error)
       ELSE IF hit = 0 THEN Refused("admin_revoke_token", ctx, "not_found", "")
       ELSE AnswerToken("admin_revoke_token", ctx, "ok", "Token revoque",
                        [registry EXCEPT ![hit].revoked = TRUE], 0, granted,
                        revoked_ok \cup {registry[hit].hash})

admin_update_token ==
  /\ call = NoCall
  /\ \E ctx \in Contexts, token_hash \in HashArgs, perms \in ToolPermArgs, fails \in BOOLEAN :
    LET err == check_admin_permission(ctx)
        hit == FirstIndex(registry, LAMBDA t : hash_matches(t.hash, token_hash))
        upd == IF perms = <<>> THEN registry[hit]
               ELSE [registry[hit] EXCEPT !.permissions = parse_list_keep_empty(perms)]
    IN IF err # None THEN Refused("admin_update_token", ctx, "error", err)
       ELSE IF fails THEN Refused("admin_update_token", ctx, "error", S3Error)
       ELSE IF hit = 0 THEN Refused("admin_update_token", ctx, "not_found", "")
       ELSE AnswerToken("admin_update_token", ctx, "ok", "Token mis a jour",
                        [registry EXCEPT ![hit] = upd], 0, Granted(upd.hash, upd),
                        revoked_ok)

\* scan_old_notes: old[s] of the notes of a scanned space are older than
\* the cutoff.
Scans(space_id) ==
  {old \in [Spaces -> 0..MaxWrittenGC] :
     \A s \in Spaces :
       /\ old[s] <= spaces[s].notes
       /\ (~spaces[s].exists \/ (space_id # "" /\ s # space_id)) => old[s] = 0}

\* confirm and delete_only: delete_many of the old notes.  confirm alone:
\* per agent a notice note is written and the consolidator is run, which
\* removes the notes it has integrated.  Otherwise: the scan only.
admin_gc_notes ==
  /\ call = NoCall
  /\ \E ctx \in Contexts, sid \in Spaces \cup {""}, confirm \in BOOLEAN,
     delete_only \in BOOLEAN, fails \in BOOLEAN :
    LET err == check_admin_permission(ctx)
    IN IF err # None THEN Answer("admin_gc_notes", ctx, sid, confirm, "error", err)
       ELSE IF fails THEN Answer("admin_gc_notes", ctx, sid, confirm, "error", S3Error)
       ELSE \E old \in Scans(sid) :
              IF confirm /\ delete_only
              THEN IF \A s \in Spaces : old[s] = 0
                   THEN Answer("admin_gc_notes", ctx, sid, confirm, "ok", "delete")
                   ELSE AnswerWith("admin_gc_notes", ctx, sid, confirm, "deleted", "delete",
                          [s \in Spaces |->
                             [spaces[s] EXCEPT !.notes = @ - old[s]]], backups)
              ELSE IF confirm
              THEN \E left \in [Spaces -> 0..MaxWrittenGC] :
                     /\ \A s \in Spaces :
                          IF old[s] = 0 THEN left[s] = spaces[s].notes
                          ELSE left[s] <= spaces[s].notes + 1
                     /\ AnswerWith("admin_gc_notes", ctx, sid, confirm, "ok", "consolidate",
                          [s \in Spaces |-> [spaces[s] EXCEPT !.notes = left[s]]],
                          backups)
              ELSE Answer("admin_gc_notes", ctx, sid, confirm, "ok", "dry-run")

\* ------------------------------------------------------------------- spec
\* One step of a consolidator run, whoever started it.
RunStep(p) ==
  \/ collect_inputs(p)
  \/ collect_inputs_fail(p)
  \/ call_llm(p)
  \/ write_bank(p)
  \/ write_synth(p)
  \/ read_meta(p)
  \/ write_meta(p)
  \/ put_fail(p)
  \/ read_meta_fail(p)
  \/ delete_note(p)
  \/ delete_note_fail(p)
  \/ list_bank(p)
  \/ list_bank_fail(p)

\* The same steps with deletes that succeed (failing deletes are followed
\* in Spec).
RunStepGC(p) ==
  \/ collect_inputs(p)
  \/ collect_inputs_fail(p)
  \/ call_llm(p)
  \/ write_bank(p)
  \/ write_synth(p)
  \/ read_meta(p)
  \/ write_meta(p)
  \/ put_fail(p)
  \/ read_meta_fail(p)
  \/ delete_note(p)
  \/ list_bank(p)
  \/ list_bank_fail(p)

\* Agents writing notes and consolidating.
Next ==
  \/ write_note
  \/ \E p \in Callers : bank_consolidate(p)
  \/ \E p \in Callers : Return(p)
  \/ \E p \in Callers : RunStep(p)

Spec == Init /\ [][Next]_vars

\* The same with the garbage collector and one consolidating agent.
NextGC ==
  \/ Tick
  \/ write_note_gc
  \/ gc_scan
  \/ gc_notice
  \/ gc_try_lock
  \/ gc_record
  \/ bank_consolidate("c1")
  \/ Return("c1")
  \/ \E p \in {"c1", "gc"} : RunStepGC(p)

SpecGC == Init /\ [][NextGC]_vars

\* The same, every run of the collector with max_age_days = 0.
NextGCNow ==
  \/ Tick
  \/ write_note_gc
  \/ gc_scan_now
  \/ gc_notice
  \/ gc_try_lock
  \/ gc_record
  \/ bank_consolidate("c1")
  \/ Return("c1")
  \/ \E p \in {"c1", "gc"} : RunStepGC(p)

SpecGCNow == Init /\ [][NextGCNow]_vars

\* One consolidating agent; every chat-completions request comes back (a
\* response, or the exception of the client's timeout).
NextLLM ==
  \/ write_note_gc
  \/ bank_consolidate("c1")
  \/ Return("c1")
  \/ RunStep("c1")

SpecLLM == Init /\ [][NextLLM]_vars /\ WF_vars(call_llm("c1"))

\* The token registry under concurrent admin tools and authentications.
NextTok ==
  \/ Tick
  \/ \E q \in TRequests :
       \/ tok_create(q)
       \/ tok_revoke(q)
       \/ tok_update(q)
       \/ tok_validate(q)
       \/ tok_list(q)
       \/ tok_load_fail(q)
       \/ tok_save(q)
       \/ tok_save_fail(q)
       \/ tok_return(q)

SpecTok == Init /\ [][NextTok]_vars

\* The registry under one request at a time.
NextTokSeq ==
  \/ Tick
  \/ tok_create("q1")
  \/ tok_revoke("q1")
  \/ tok_update("q1")
  \/ tok_validate("q1")
  \/ tok_list("q1")
  \/ tok_load_fail("q1")
  \/ tok_save("q1")
  \/ tok_save_fail("q1")
  \/ tok_return("q1")

SpecTokSeq == Init /\ [][NextTokSeq]_vars

\* The MCP tools, one call at a time.
NextTools ==
  \/ system_health \/ system_about
  \/ space_create \/ space_list \/ space_info \/ space_rules
  \/ space_summary \/ space_export \/ space_delete
  \/ live_note \/ live_read \/ live_search
  \/ bank_read \/ bank_read_all \/ bank_list \/ tool_bank_consolidate
  \/ graph_connect \/ graph_push \/ graph_status \/ graph_disconnect
  \/ backup_create \/ backup_list \/ backup_restore \/ backup_download
  \/ backup_delete
  \/ admin_create_token \/ admin_list_tokens \/ admin_revoke_token
  \/ admin_update_token \/ admin_gc_notes
  \/ tool_return

SpecTools == Init /\ [][NextTools]_vars


\* ============================================================ properties
\* run[p].ops is the log of the S3 mutations the current (or just ended)
\* run of p has issued, in order; run[p].during the notes written by
\* live_note since its collection.
RunEnded(p) == run[p].rr # NoResult
HasOp(p, kind) == \E i \in 1..Len(run[p].ops) : run[p].ops[i][1] = kind
OpKeys(p, kinds) ==
  {run[p].ops[i][2] : i \in {j \in 1..Len(run[p].ops) : run[p].ops[j][1] \in kinds}}
WritableFiles(d) ==
  {d.bank_files[i].filename : i \in {j \in 1..Len(d.bank_files) : Writable(d.bank_files[j])}}

\* Every change of a bank file, of the synthesis or of the meta, and every
\* removal of a note, is in the log of the run that made it.
LoggedChanges ==
  /\ \A f \in BankFiles :
       bank'[f] # bank[f] =>
         \E p \in Procs : run'[p].ops = Append(run[p].ops, <<"put_bank", f>>)
  /\ synthesis' # synthesis =>
       \E p \in Procs : run'[p].ops = Append(run[p].ops, <<"put_synth", "_synthesis.md">>)
  /\ meta' # meta =>
       \E p \in Procs : run'[p].ops = Append(run[p].ops, <<"put_meta", "_meta.json">>)
  /\ \A k \in live \ live' :
       \E p \in Procs : run'[p].ops = Append(run[p].ops, <<"del", k>>)

\* C1: a bank_consolidate that starts while another bank_consolidate of the
\* space is inside its consolidation returns status=conflict in that very
\* step (it does not wait) and changes neither the objects of the space nor
\* the lock nor the running call; never are two calls inside the
\* consolidator at once.
C1_ConflictWhenOverlapping ==
  /\ [](Cardinality({p \in Callers : InRun(p)}) <= 1)
  /\ [][\A p \in Callers :
          (/\ run[p].pc = "idle"
           /\ run'[p].pc # "idle"
           /\ \E q \in Callers \ {p} : InRun(q))
          => (/\ run'[p].pc = "done"
              /\ run'[p].result = [status |-> "conflict"]
              /\ run'[p].requests = 0
              /\ run'[p].ops = <<>>
              /\ UNCHANGED <<live, bank, synthesis, meta, lock>>
              /\ \A q \in Callers \ {p} : run'[q] = run[q])]_vars

C1_Witness ==
  \E p \in Callers : \E q \in Callers \ {p} :
    /\ run[p].pc = "done"
    /\ run[p].result.status = "conflict"
    /\ run[q].pc = "llm"

\* C2: a successful bank_consolidate by an agent deletes only notes of that
\* agent: it deletes no note written by another agent.
C2_OtherAgentsNotesKept ==
  \A p \in Callers :
    (run[p].pc = "done" /\ run[p].rr.status = "ok")
    => \A k \in OpKeys(p, {"del"}) : k.agent = CallerAgent[p]

\* C3: a run that ends with an error caused by the LLM (timeout or network
\* error, invalid JSON or missing field after the retry) or by a failed S3
\* write (bank file, synthesis, meta) has removed no note under live/: it
\* has issued no delete, and notes are removed by logged deletes only.
WriteOrLLMErrors ==
  {"LLM call failed", "LLM returned invalid JSON after retry",
   "LLM response missing bank_files or synthesis", "PutObject"}

C4_LLMFailureChangesNothing ==
  /\ [](\A p \in Procs :
          (RunEnded(p)
             /\ run[p].llm_kind \in {"exception", "invalid_json", "missing_field"})
          => (/\ run[p].rr.status = "error"
              /\ run[p].ops = <<>>
              /\ Range(run[p].notes_keys) \subseteq live))
  /\ [][LoggedChanges]_vars

C4_Witness ==
  \E p \in Procs :
    /\ RunEnded(p)
    /\ run[p].llm_kind = "missing_field"
    /\ run[p].requests = 2
    /\ run[p].notes_keys # <<>>

\* C5 (as stated): a run that returns status=error because of an S3 failure
\* has committed nothing: no bank file, no synthesis, no meta update.
S3Errors == {"PutObject", "GetObject", "ListObjectsV2"}

RECURSIVE BankPuts(_)
BankPuts(files) ==
  IF files = <<>> THEN <<>>
  ELSE (IF Writable(files[1]) THEN <<(<<"put_bank", files[1].filename>>)>> ELSE <<>>)
       \o BankPuts(Tail(files))

PlannedPuts(d) ==
  BankPuts(d.bank_files) \o <<(<<"put_synth", "_synthesis.md">>), (<<"put_meta", "_meta.json">>)>>

IsStrictPrefix(s, t) == Len(s) < Len(t) /\ s = SubSeq(t, 1, Len(s))

OpRank(op) ==
  CASE op[1] = "put_bank" -> 1
    [] op[1] = "put_synth" -> 2
    [] op[1] = "put_meta" -> 3
    [] OTHER -> 4

Committed(p) ==
  /\ HasOp(p, "put_synth")
  /\ HasOp(p, "put_meta")
  /\ OpKeys(p, {"put_bank"}) = WritableFiles(run[p].data)

OrderedLog(p) ==
  /\ \A i, j \in 1..Len(run[p].ops) :
       i < j => OpRank(run[p].ops[i]) <= OpRank(run[p].ops[j])
  /\ (HasOp(p, "del") \/ HasOp(p, "del_failed")) => Committed(p)

C7_DeletionImpliesBankWrite ==
  \A p \in Procs :
    (RunEnded(p) /\ HasOp(p, "del")) => HasOp(p, "put_bank")

\* C8: a run issues its deletes on exactly the keys it collected, and every
\* note written while it was in progress (after its collection) is under
\* live/ when it ends.
C8_DeletesOnlyCollected ==
  \A p \in Procs :
    /\ OpKeys(p, {"del", "del_failed"}) \subseteq Range(run[p].notes_keys)
    /\ RunEnded(p) => run[p].during \subseteq live
    /\ (RunEnded(p) /\ run[p].rr.status = "ok" /\ run[p].notes_keys # <<>>)
         => /\ OpKeys(p, {"del", "del_failed"}) = Range(run[p].notes_keys)
            /\ run[p].during \cap Range(run[p].notes_keys) = {}

C8_Witness ==
  \E p \in Procs :
    /\ RunEnded(p)
    /\ run[p].rr.status = "ok"
    /\ HasOp(p, "del")
    /\ run[p].during # {}
    /\ \E k \in run[p].during : \E j \in Range(run[p].notes_keys) : k.agent = j.agent

\* C9: when the collection finds no note (none under live/, or none that
\* passes the agent filter) the run returns status=ok, notes_processed=0 at
\* once: no LLM request, no write, no delete.
ShortCircuit == [status |-> "ok", notes_processed |-> 0]

C9_ZeroNotesShortCircuit ==
  /\ [](\A p \in Procs :
          (RunEnded(p) /\ run[p].notes_keys = <<>>
             /\ run[p].rr # ErrorResult("GetObject"))
          => (/\ run[p].rr = ShortCircuit
              /\ run[p].requests = 0
              /\ run[p].ops = <<>>))
  /\ [][\A p \in Procs :
          (/\ run[p].pc = "collect"
           /\ run'[p].pc # "collect"
           /\ run'[p].rr # ErrorResult("GetObject")
           /\ agent_filter(run[p].agent, live) = {})
          => (/\ run'[p].rr = ShortCircuit
              /\ run'[p].requests = 0
              /\ run'[p].ops = <<>>
              /\ UNCHANGED <<live, bank, synthesis, meta>>)]_vars
  /\ [][LoggedChanges]_vars

C9_Witness ==
  /\ RunEnded("gc")
  /\ run["gc"].rr = ShortCircuit
  /\ run["gc"].agent # ""

\* C10: with more than max_notes eligible notes a successful run processes
\* and deletes only the max_notes smallest keys, leaves the others under
\* live/ and reports their number as notes_remaining in its result.
ResultField(r, f) == IF f \in DOMAIN r THEN r[f] ELSE -1

C10_ExcessReported ==
  \A p \in Procs :
    (RunEnded(p) /\ run[p].rr.status = "ok" /\ run[p].notes_remaining > 0)
    => (/\ Len(run[p].notes_keys) = max_notes
        /\ OpKeys(p, {"del"}) \subseteq Range(run[p].notes_keys)
        /\ ResultField(run[p].rr, "notes_remaining") = run[p].notes_remaining)

\* C11: a run sends at most two LLM requests; the second is sent only
\* after a first reply that is invalid JSON or lacks bank_files/synthesis;
\* when the second reply fails too the run returns status=error; an
\* exception of the request (timeout, network) returns status=error with no
\* further request; and a run waiting for the LLM always leaves _call_llm,
\* with an error or with a validated reply.
LLMFailures == {"exception", "invalid_json", "missing_field"}

C12_RevocationPermanent ==
  [][\A q \in TRequests :
       (/\ tk[q].pc = "idle"
        /\ tk'[q].op = "validate"
        /\ sha256(tk'[q].raw) \in revoked_ok)
       => (tk'[q].pc = "done" /\ tk'[q].reply = [status |-> None])]_vars

\* C13: a request that writes _system/tokens.json holds the token mutex
\* when its write is made.
C13_RegistryWrittenUnderMutex ==
  [][\A q \in TRequests : (tk'[q].wrote /\ ~tk[q].wrote) => tlock = q]_vars

\* C14: a validate that accepts a token returns the name, the permissions
\* and the space ids that the create or the latest update of that token
\* which returned before its read had given.
GrantOf(t) == [name |-> t.name, permissions |-> t.permissions, space_ids |-> t.space_ids]

C14_ValidateReturnsGranted ==
  /\ [][\A q \in TRequests :
          (tk[q].pc = "idle" /\ tk'[q].op = "validate" /\ tk'[q].pc = "save")
          => GrantOf(tk'[q].store[tk'[q].hit]) = granted[sha256(tk'[q].raw)]]_vars
  /\ [](\A q \in TRequests :
          (tk[q].pc = "done" /\ tk[q].op = "validate" /\ tk[q].reply.status # None)
          => tk[q].reply = ValidReply(tk[q].store[tk[q].hit]))

\* C15: the registry (and every store about to be saved) holds the sha256
\* hash of each token and no cleartext; a cleartext is in a response only
\* as the token field of the created response of the call that generated
\* it; list, revoke, update and validate responses hold none.
Cleartexts == {RawToken(i) : i \in 1..(MaxTokens + 1)}

HoldsCleartext(rec) ==
  \E f \in DOMAIN rec \cap {"hash", "name", "client_name", "token", "message", "status"} :
     rec[f] \in Cleartexts

StoreClean(tokens) ==
  \A i \in 1..Len(tokens) :
     /\ ~HoldsCleartext(tokens[i])
     /\ \E raw \in Cleartexts : tokens[i].hash = sha256(raw)

C15_CleartextOnlyInCreateResponse ==
  /\ StoreClean(registry)
  /\ \A q \in TRequests :
       /\ StoreClean(tk[q].store)
       /\ (tk[q].pc = "done" /\ HoldsCleartext(tk[q].reply))
            => (/\ tk[q].op = "create"
                /\ tk[q].reply.status = "created"
                /\ tk[q].reply.token = RawToken(nextTok - 1)
                /\ ~HoldsCleartext([tk[q].reply EXCEPT !.token = ""]))
       /\ (tk[q].pc = "done" /\ tk[q].op = "list" /\ tk[q].reply.status = "ok")
            => \A i \in 1..Len(tk[q].reply.tokens) : ~HoldsCleartext(tk[q].reply.tokens[i])

C15_Witness ==
  /\ tk["q1"].pc = "done"
  /\ tk["q1"].op = "list"
  /\ tk["q1"].reply.status = "ok"
  /\ tk["q1"].reply.total = 1
  /\ tk["q1"].reply.tokens[1].hash = truncated(sha256(RawToken(1)))
  /\ registry[1].last_used_at # NoTime

\* C16: the registry never holds a permission outside read, write, admin:
\* a create or an update that gives another value is rejected.
KnownPermissions == {"read", "write", "admin"}

C16_OnlyKnownPermissions ==
  \A i \in 1..Len(registry) : Range(registry[i].permissions) \subseteq KnownPermissions

\* ------------------------------------------------------------ tool claims
\* A step that makes a tool call: call' is the call and what it returned.
ToolCall == call = NoCall /\ call' # NoCall
\* What the tools store: the spaces, the backups, the token registry.
StoreUnchanged == UNCHANGED <<spaces, backups, registry>>

\* The tools that name a space, by a space_id or a backup_id argument.
SpaceScoped ==
  {"space_create", "space_info", "space_rules", "space_summary", "space_export",
   "space_delete", "live_note", "live_read", "live_search", "bank_read",
   "bank_read_all", "bank_list", "bank_consolidate", "graph_connect",
   "graph_push", "graph_status", "graph_disconnect", "backup_create",
   "backup_list", "backup_restore", "backup_download", "backup_delete",
   "admin_gc_notes"}

\* C17: a token without admin and with a non-empty space list is confined
\* to its spaces: a space-scoped tool called on a space outside the list
\* is refused (access denied to the space, or a missing permission) and
\* leaves the store as it was; on a listed space the call is not answered
\* with access-denied; a token with admin is never answered with
\* access-denied.
C17_ConfinedToListedSpaces ==
  [][(ToolCall /\ call'.tool \in SpaceScoped /\ call'.ctx # NoContext
        /\ call'.space_id \in Spaces) =>
       LET t == call'.ctx[1]
           admin == "admin" \in Range(t.permissions)
           listed_space == call'.space_id \in Range(t.allowed_resources)
       IN /\ (~admin /\ t.allowed_resources # <<>> /\ ~listed_space) =>
               /\ call'.status = "error"
               /\ call'.message \in {AccesRefuse, WriteRequise, AdminRequise}
               /\ StoreUnchanged
          /\ (admin \/ listed_space) => call'.message # AccesRefuse]_vars

PublicTools == {"system_health", "system_about"}

\* C18: every tool other than system_health and system_about, called
\* with no auth context (absent, unknown, revoked or expired token),
\* returns status=error and leaves the store as it was.
C18_TokenRequired ==
  [][(ToolCall /\ call'.tool \notin PublicTools /\ call'.ctx = NoContext) =>
       (call'.status = "error" /\ StoreUnchanged)]_vars

\* A destructive call without token was refused although its target had
\* something to lose.
C18_Witness ==
  /\ call.tool = "space_delete"
  /\ call.ctx = NoContext
  /\ call.confirm
  /\ spaces[call.space_id].exists
  /\ spaces[call.space_id].notes > 0
  /\ call.status = "error"

StatusValues ==
  {"ok", "created", "deleted", "disconnected", "connected", "not_found",
   "conflict", "error"}

\* C20: the status of every tool payload is one of ok, created, deleted,
\* disconnected, connected, not_found, conflict, error.
C20_StatusValues == call # NoCall => call.status \in StatusValues

\* The answers a handler gives before or instead of looking for its target:
\* a failed check, a bad argument, an exception.
Refusals ==
  {Authentification, AccesRefuse, WriteRequise, AdminRequise, ConfirmRequis,
   S3Error, "Categorie invalide", "backup_id invalide", "space_id invalide",
   "Permissions requises"}

\* The tools that work on a space that must exist.
NeedsSpace ==
  {"space_info", "space_rules", "space_summary", "space_export", "space_delete",
   "live_note", "live_read", "live_search", "bank_read", "bank_read_all",
   "bank_list", "bank_consolidate", "graph_connect", "graph_push",
   "graph_status", "graph_disconnect", "backup_create", "admin_gc_notes"}

\* C21: a tool called on a missing space, backup or token, and not
\* refused for another reason, returns status=not_found; this includes
\* bank_consolidate and the GC on a space without _meta.json.
C21_MissingIsNotFound ==
  [][(ToolCall /\ call'.message \notin Refusals) =>
       /\ (call'.tool \in NeedsSpace /\ call'.space_id \in Spaces
             /\ ~spaces[call'.space_id].exists) => call'.status = "not_found"
       /\ (call'.tool \in {"backup_restore", "backup_download", "backup_delete"}
             /\ call'.space_id \notin backups) => call'.status = "not_found"
       /\ (call'.tool \in {"admin_revoke_token", "admin_update_token"}
             /\ registry = <<>>) => call'.status = "not_found"]_vars

\* ------------------------------------------- the storage adapter (S3)
\* Everything the tool calls on the objects of a space leave alone.
nonstore == <<now, nextId, live, bank, synthesis, meta, lock, run, delFails,
              tokvars, toolvars, note, gc_before, mcpvars, morevars>>

\* The two boto3 clients of StorageService.
client_v2 == "s3"
client_v4 == "s3v4"

Request(operation, client) == [operation |-> operation, client |-> client]

\* StorageService.put: put_object of the UTF-8 encoding of the content.
storage_put(key, content) ==
  /\ objects' = [objects EXCEPT ![key] = content]
  /\ request' = Request("put_object", client_v2)

\* StorageService.get: get_object, the body decoded.
storage_get == request' = Request("get_object", client_v2)

\* StorageService.delete: delete_object.
storage_delete(key) ==
  /\ objects' = [objects EXCEPT ![key] = Absent]
  /\ request' = Request("delete_object", client_v2)

\* StorageService.list_objects and list_prefixes: list_objects_v2.
storage_list_objects == request' = Request("list_objects_v2", client_v4)

storage_exists_v2 == request' = Request("head_object", client_v2)

\* StorageService.exists: head_object.
storage_exists == request' = Request("head_object", client_v4)

\* StorageService.copy_object.
storage_copy_object == request' = Request("copy_object", client_v2)

\* StorageService.test_connection: head_bucket.
storage_test_connection == request' = Request("head_bucket", client_v4)

\* The keys of a listing, in the order of the listing.
Listing(objs) == SelectSeq(KeyOrder, LAMBDA k : objs[k] # Absent)

\* The call of job p ends with this status; the answer is the one of the
\* last step only.
Finish(p, tool, status) ==
  /\ job' = [job EXCEPT ![p] = IdleJob]
  /\ answer' = [tool |-> tool, status |-> status]

\* The call of job p goes on.
Goto(p, tool, pc, todo, arg, ts) ==
  /\ job' = [job EXCEPT ![p] = [tool |-> tool, pc |-> pc, todo |-> todo,
                                arg |-> arg, ts |-> ts]]
  /\ answer' = NoToolReply

\* ---------------------------------------------------------- SpaceService
\* SpaceService.create up to its test of _meta.json.
space_create_exists(p) ==
  /\ job[p] = IdleJob
  /\ \E rules \in RulesArgs :
       IF objects["_meta.json"] # Absent
       THEN Finish(p, "space_create", "already_exists")
       ELSE Goto(p, "space_create", "put",
                 <<"_meta.json", "_rules.md", "live/.keep", "bank/.keep">>, rules, 0)
  /\ storage_exists
  /\ UNCHANGED <<objects, backup_objects, uuids, deleted, nonstore>>

\* What SpaceService.create writes under a key.
CreatedContent(key, rules) ==
  CASE key = "_meta.json" -> "meta"
    [] key = "_rules.md" -> rules
    [] OTHER -> ""

\* One of the four puts of SpaceService.create.
space_create_put(p) ==
  /\ job[p].tool = "space_create" /\ job[p].pc = "put"
  /\ storage_put(Head(job[p].todo), CreatedContent(Head(job[p].todo), job[p].arg))
  /\ IF Len(job[p].todo) = 1
     THEN Finish(p, "space_create", "created")
     ELSE Goto(p, "space_create", "put", Tail(job[p].todo), job[p].arg, 0)
  /\ deleted' = FALSE
  /\ UNCHANGED <<backup_objects, uuids, nonstore>>

\* SpaceService.get_rules.
get_rules(p) ==
  /\ job[p] = IdleJob
  /\ storage_get
  /\ Finish(p, "space_rules", IF objects["_rules.md"] = Absent THEN "not_found" ELSE "ok")
  /\ UNCHANGED <<objects, backup_objects, uuids, deleted, nonstore>>

\* SpaceService.list_spaces.
list_spaces(p) ==
  /\ job[p] = IdleJob
  /\ storage_list_objects
  /\ Finish(p, "space_list", "ok")
  /\ UNCHANGED <<objects, backup_objects, uuids, deleted, nonstore>>

\* system_health's test of the bucket.
test_connection(p) ==
  /\ job[p] = IdleJob
  /\ storage_test_connection
  /\ Finish(p, "system_health", "ok")
  /\ UNCHANGED <<objects, backup_objects, uuids, deleted, nonstore>>

\* SpaceService.delete up to its test of _meta.json.
space_delete_exists(p) ==
  /\ job[p] = IdleJob
  /\ storage_exists
  /\ IF objects["_meta.json"] = Absent
     THEN Finish(p, "space_delete", "not_found")
     ELSE Goto(p, "space_delete", "list", <<>>, "", 0)
  /\ UNCHANGED <<objects, backup_objects, uuids, deleted, nonstore>>

\* SpaceService.delete lists the objects of the space.
space_delete_list(p) ==
  /\ job[p].tool = "space_delete" /\ job[p].pc = "list"
  /\ storage_list_objects
  /\ IF Listing(objects) = <<>>
     THEN Finish(p, "space_delete", "deleted") /\ deleted' = TRUE
     ELSE Goto(p, "space_delete", "delete", Listing(objects), "", 0) /\ UNCHANGED deleted
  /\ UNCHANGED <<objects, backup_objects, uuids, nonstore>>

\* One delete of delete_many; the tool returns after the last one.
space_delete_many(p) ==
  /\ job[p].tool = "space_delete" /\ job[p].pc = "delete"
  /\ storage_delete(Head(job[p].todo))
  /\ IF Len(job[p].todo) = 1
     THEN Finish(p, "space_delete", "deleted") /\ deleted' = TRUE
     ELSE Goto(p, "space_delete", "delete", Tail(job[p].todo), "", 0) /\ UNCHANGED deleted
  /\ UNCHANGED <<backup_objects, uuids, nonstore>>

\* ----------------------------------------------------------- LiveService
uuid4_reused(key) == TRUE

\* uuid4: a key no note has had.
uuid4(key) == key \notin uuids

\* LiveService.write_note up to its test of _meta.json.
write_note_exists(p) ==
  /\ job[p] = IdleJob
  /\ storage_exists
  /\ IF objects["_meta.json"] = Absent
     THEN Finish(p, "live_note", "not_found") /\ UNCHANGED uuids
     ELSE \E key \in NoteKeys, content \in NoteContents :
            /\ uuid4(key)
            /\ uuids' = uuids \cup {key}
            /\ Goto(p, "live_note", "put", <<key>>, content, 0)
  /\ UNCHANGED <<objects, backup_objects, deleted, nonstore>>

\* The one put of LiveService.write_note.
write_note_put(p) ==
  /\ job[p].tool = "live_note" /\ job[p].pc = "put"
  /\ storage_put(Head(job[p].todo), job[p].arg)
  /\ Finish(p, "live_note", "created")
  /\ UNCHANGED <<backup_objects, uuids, deleted, nonstore>>

\* --------------------------------------------------------- BackupService
\* BackupService.create up to its test of _meta.json; the timestamp of the
\* backup is the second of the call.
backup_create_exists(p) ==
  /\ job[p] = IdleJob
  /\ storage_exists
  /\ IF objects["_meta.json"] = Absent
     THEN Finish(p, "backup_create", "not_found")
     ELSE Goto(p, "backup_create", "list", <<>>, "", now)
  /\ UNCHANGED <<objects, backup_objects, uuids, deleted, nonstore>>

\* BackupService.create lists the objects of the space.
backup_create_list(p) ==
  /\ job[p].tool = "backup_create" /\ job[p].pc = "list"
  /\ storage_list_objects
  /\ IF Listing(objects) = <<>>
     THEN Finish(p, "backup_create", "created")
     ELSE Goto(p, "backup_create", "copy", Listing(objects), "", job[p].ts)
  /\ UNCHANGED <<objects, backup_objects, uuids, deleted, nonstore>>

\* One copy of BackupService.create; a source that is gone raises.
backup_create_copy(p) ==
  /\ job[p].tool = "backup_create" /\ job[p].pc = "copy"
  /\ storage_copy_object
  /\ LET key == Head(job[p].todo) IN
       IF objects[key] = Absent
       THEN Finish(p, "backup_create", "error") /\ UNCHANGED backup_objects
       ELSE /\ backup_objects' = [backup_objects EXCEPT ![job[p].ts][key] = objects[key]]
            /\ IF Len(job[p].todo) = 1
               THEN Finish(p, "backup_create", "created")
               ELSE Goto(p, "backup_create", "copy", Tail(job[p].todo), "", job[p].ts)
  /\ UNCHANGED <<objects, uuids, deleted, nonstore>>

\* BackupService.restore lists the objects of the backup.
backup_restore_list(p) ==
  /\ job[p] = IdleJob
  /\ storage_list_objects
  /\ \E ts \in 0..MaxTime :
       IF Listing(backup_objects[ts]) = <<>>
       THEN Finish(p, "backup_restore", "not_found")
       ELSE Goto(p, "backup_restore", "exists", Listing(backup_objects[ts]), "", ts)
  /\ UNCHANGED <<objects, backup_objects, uuids, deleted, nonstore>>

\* BackupService.restore tests that the space does not exist.
backup_restore_exists(p) ==
  /\ job[p].tool = "backup_restore" /\ job[p].pc = "exists"
  /\ storage_exists
  /\ IF objects["_meta.json"] # Absent
     THEN Finish(p, "backup_restore", "error")
     ELSE Goto(p, "backup_restore", "copy", job[p].todo, "", job[p].ts)
  /\ UNCHANGED <<objects, backup_objects, uuids, deleted, nonstore>>

\* One copy of BackupService.restore.
backup_restore_copy(p) ==
  /\ job[p].tool = "backup_restore" /\ job[p].pc = "copy"
  /\ storage_copy_object
  /\ LET key == Head(job[p].todo) IN
       /\ objects' = [objects EXCEPT ![key] = backup_objects[job[p].ts][key]]
       /\ IF Len(job[p].todo) = 1
          THEN Finish(p, "backup_restore", "ok")
          ELSE Goto(p, "backup_restore", "copy", Tail(job[p].todo), "", job[p].ts)
  /\ deleted' = FALSE
  /\ UNCHANGED <<backup_objects, uuids, nonstore>>

\* ---------------------------------------- consolidation, seen from the store
\* The consolidation lock of the space is held.
locked == \E q \in Jobs : job[q].pc \in {"bank", "synthesis", "meta", "delete"}

\* _collect_inputs: the metadata and the notes of the space.
Collect(p, tool) ==
  /\ storage_get
  /\ IF objects["_meta.json"] = Absent
     THEN Finish(p, tool, IF tool = "bank_consolidate" THEN "error" ELSE "ok")
     ELSE IF \A k \in NoteKeys : objects[k] = Absent
     THEN Finish(p, tool, "ok")
     ELSE Goto(p, tool, "bank", SelectSeq(Listing(objects), LAMBDA k : k \in NoteKeys), "", 0)
  /\ UNCHANGED <<objects, backup_objects, uuids, deleted, nonstore>>

\* The bank_consolidate tool: conflict when the lock is held, else the
\* consolidation up to the end of _collect_inputs.
store_consolidate(p) ==
  /\ job[p] = IdleJob
  /\ IF locked
     THEN /\ Finish(p, "bank_consolidate", "conflict")
          /\ UNCHANGED <<objects, request, backup_objects, uuids, deleted, nonstore>>
     ELSE Collect(p, "bank_consolidate")

\* _write_results: the bank file.
write_results_bank(p) ==
  /\ job[p].pc = "bank"
  /\ storage_put("bank/f.md", "bank")
  /\ Goto(p, job[p].tool, "synthesis", job[p].todo, "", 0)
  /\ UNCHANGED <<backup_objects, uuids, deleted, nonstore>>

\* _write_results: the synthesis.
write_results_synthesis(p) ==
  /\ job[p].pc = "synthesis"
  /\ storage_put("_synthesis.md", "synthesis")
  /\ Goto(p, job[p].tool, "meta", job[p].todo, "", 0)
  /\ UNCHANGED <<backup_objects, uuids, deleted, nonstore>>

\* _write_results: the metadata, read ("or {}") and written back.
write_results_meta(p) ==
  /\ job[p].pc = "meta"
  /\ storage_put("_meta.json", IF objects["_meta.json"] = Absent THEN "meta {}" ELSE "meta")
  /\ Goto(p, job[p].tool, "delete", job[p].todo, "", 0)
  /\ UNCHANGED <<backup_objects, uuids, deleted, nonstore>>

\* _write_results: one delete of delete_many on the notes.
write_results_delete(p) ==
  /\ job[p].pc = "delete"
  /\ job[p].tool \in {"bank_consolidate", "admin_gc_notes"}
  /\ storage_delete(Head(job[p].todo))
  /\ IF Len(job[p].todo) = 1
     THEN Finish(p, job[p].tool, "ok")
     ELSE Goto(p, job[p].tool, "delete", Tail(job[p].todo), "", 0)
  /\ UNCHANGED <<backup_objects, uuids, deleted, nonstore>>

\* ----------------------------------------- the collector, seen from the store
\* scan_old_notes on the space (max_age_days = 0).
store_gc_scan(p) ==
  /\ job[p] = IdleJob
  /\ storage_list_objects
  /\ IF objects["_meta.json"] = Absent \/ \A k \in NoteKeys : objects[k] = Absent
     THEN Finish(p, "admin_gc_notes", "ok")
     ELSE Goto(p, "admin_gc_notes", "notice", <<>>, "", 0)
  /\ UNCHANGED <<objects, backup_objects, uuids, deleted, nonstore>>

\* The notice of consolidate_old_notes: write_note up to its test of
\* _meta.json.
store_gc_notice_exists(p) ==
  /\ job[p].tool = "admin_gc_notes" /\ job[p].pc = "notice"
  /\ storage_exists
  /\ IF objects["_meta.json"] = Absent \/ \A key \in NoteKeys : ~uuid4(key)
     THEN Goto(p, "admin_gc_notes", "lock", <<>>, "", 0) /\ UNCHANGED uuids
     ELSE \E key \in NoteKeys :
            /\ uuid4(key)
            /\ uuids' = uuids \cup {key}
            /\ Goto(p, "admin_gc_notes", "notice_put", <<key>>, "", 0)
  /\ UNCHANGED <<objects, backup_objects, deleted, nonstore>>

\* The put of the notice.
store_gc_notice_put(p) ==
  /\ job[p].tool = "admin_gc_notes" /\ job[p].pc = "notice_put"
  /\ storage_put(Head(job[p].todo), "gc notice")
  /\ Goto(p, "admin_gc_notes", "lock", <<>>, "", 0)
  /\ UNCHANGED <<backup_objects, uuids, deleted, nonstore>>

\* consolidate_old_notes: skipped when the lock is held, else the
\* consolidation up to the end of _collect_inputs.
store_gc_consolidate(p) ==
  /\ job[p].tool = "admin_gc_notes" /\ job[p].pc = "lock"
  /\ IF locked
     THEN /\ Finish(p, "admin_gc_notes", "ok")
          /\ UNCHANGED <<objects, request, backup_objects, uuids, deleted, nonstore>>
     ELSE Collect(p, "admin_gc_notes")

\* One call at a time, every tool.
StoreStep(p) ==
  \/ space_create_exists(p)
  \/ space_create_put(p)
  \/ get_rules(p)
  \/ list_spaces(p)
  \/ test_connection(p)
  \/ space_delete_exists(p)
  \/ space_delete_list(p)
  \/ space_delete_many(p)
  \/ write_note_exists(p)
  \/ write_note_put(p)
  \/ backup_create_exists(p)
  \/ backup_create_list(p)
  \/ backup_create_copy(p)
  \/ backup_restore_list(p)
  \/ backup_restore_exists(p)
  \/ backup_restore_copy(p)
  \/ store_consolidate(p)
  \/ write_results_bank(p)
  \/ write_results_synthesis(p)
  \/ write_results_meta(p)
  \/ write_results_delete(p)
  \/ store_gc_scan(p)
  \/ store_gc_notice_exists(p)
  \/ store_gc_notice_put(p)
  \/ store_gc_consolidate(p)

NextStoreSeq ==
  \/ Tick
  \/ StoreStep("p1")

SpecStoreSeq == Init /\ [][NextStoreSeq]_vars

\* A caller that creates, deletes and restores the space and writes notes,
\* with one more call in flight: a creation, a note, a consolidation or the
\* collector.
Caller(p) ==
  \/ space_create_exists(p)
  \/ space_create_put(p)
  \/ space_delete_exists(p)
  \/ space_delete_list(p)
  \/ space_delete_many(p)
  \/ backup_restore_list(p)
  \/ backup_restore_exists(p)
  \/ backup_restore_copy(p)
  \/ write_note_exists(p)
  \/ write_note_put(p)

InFlight(p) ==
  \/ space_create_exists(p)
  \/ space_create_put(p)
  \/ write_note_exists(p)
  \/ write_note_put(p)
  \/ store_consolidate(p)
  \/ write_results_bank(p)
  \/ write_results_synthesis(p)
  \/ write_results_meta(p)
  \/ write_results_delete(p)
  \/ store_gc_scan(p)
  \/ store_gc_notice_exists(p)
  \/ store_gc_notice_put(p)
  \/ store_gc_consolidate(p)

NextStore ==
  \/ Caller("p1")
  \/ InFlight("p2")

\* A backup of the space made in second 0: the space was created, a note
\* was written, the backup was made and the space was deleted.
Backup0 == [k \in RelKeys |->
  CASE k = "_meta.json" -> "meta"
    [] k = "_rules.md" -> "rules A"
    [] k \in {"live/.keep", "bank/.keep"} -> ""
    [] k = "live/n1" -> "note x"
    [] OTHER -> Absent]

InitStore ==
  /\ objects = NoObjects
  /\ backup_objects = [t \in 0..MaxTime |-> IF t = 0 THEN Backup0 ELSE NoObjects]
  /\ job = [p \in Jobs |-> IdleJob]
  /\ request = Request("delete_object", client_v2)
  /\ answer = [tool |-> "space_delete", status |-> "deleted"]
  /\ uuids = {"live/n1"}
  /\ deleted = TRUE
  /\ InitRest
  /\ note = NoNote
  /\ gc_before = {}
  /\ InitMcp
  /\ InitMore

SpecStore == InitStore /\ [][NextStore]_vars

\* C22: once {space}/_rules.md is written its content never changes until it
\* is deleted, in every interleaving of tool calls, and a space_create on a
\* space that exists answers already_exists and changes no object.
C22_RulesImmutable ==
  [][/\ objects["_rules.md"] # Absent
        => objects'["_rules.md"] \in {objects["_rules.md"], Absent}
     /\ (answer'.tool = "space_create" /\ answer'.status = "already_exists")
        => objects' = objects]_vars

\* The objects only live_note, bank_consolidate and the collector create (a
\* restore copies them back).
NotesAndBank == NoteKeys \cup {"bank/f.md", "_synthesis.md"}

\* C23: from the moment space_delete has answered status=deleted until a
\* space_create or a backup_restore writes again, no object exists under
\* {space}/, whatever live_note, bank_consolidate or collector call is in
\* flight (stated for the notes, the bank and the synthesis, which no
\* space_create writes).
C23_NothingAfterDelete == deleted => \A k \in NotesAndBank : objects[k] = Absent

\* C24: when live_note answers created the note exists with the bytes
\* written, live_note changes no other object and no backup, and an existing
\* note is removed or overwritten only by a step of bank_consolidate,
\* space_delete or admin_gc_notes.
C24_NotesAppendOnly ==
  [][/\ \A p \in Jobs :
          (job[p].tool = "live_note" /\ job'[p] = IdleJob) =>
             /\ answer' = [tool |-> "live_note", status |-> "created"]
             /\ objects'[Head(job[p].todo)] = job[p].arg
             /\ \A k \in RelKeys \ {Head(job[p].todo)} : objects'[k] = objects[k]
             /\ backup_objects' = backup_objects
     /\ \A k \in NoteKeys :
          (objects[k] # Absent /\ objects'[k] # objects[k]) =>
             \E p \in Jobs : /\ job'[p] # job[p]
                             /\ job[p].tool \in {"bank_consolidate", "space_delete",
                                                 "admin_gc_notes"}]_vars

\* A note written by live_note is there after the space was deleted and
\* restored around it.
C24_Witness ==
  /\ objects["live/n2"] = "note x"
  /\ answer = [tool |-> "backup_restore", status |-> "ok"]

\* ------------------------------------------------- the agent of a note
\* re.sub(r"[^a-zA-Z0-9_-]", "", agent) or "agent"
SafeChar(c) == c \in {"a", "b", "-", "_"}

safe_agent(agent) ==
  LET kept == SelectSeq(agent, SafeChar)
  IN IF kept = <<>> THEN <<"a", "g", "e", "n", "t">> ELSE kept

\* get_current_agent_name, for a call that names no agent.
get_current_agent_name(client_name) == client_name

\* LiveService.write_note, for the agent it puts in the file name and the one
\* it puts in the front-matter.
write_note_agent ==
  /\ ~note.written
  /\ LET agent == IF note.agent = <<>> THEN get_current_agent_name(note.client_name)
                  ELSE note.agent
     IN note' = [note EXCEPT !.written = TRUE,
                             !.filename_agent = safe_agent(agent),
                             !.front_matter_agent = agent]
  /\ UNCHANGED <<now, nextId, live, bank, synthesis, meta, lock, run, delFails,
                 tokvars, toolvars, storevars, gc_before, mcpvars, morevars>>

\* Every agent name a caller can supply and every name a token can carry.
InitNote ==
  /\ InitObjects
  /\ InitRest
  /\ \E agent \in AgentNames, client_name \in ClientNames :
       note = [NoNote EXCEPT !.agent = agent, !.client_name = client_name]
  /\ gc_before = {}
  /\ InitMcp
  /\ InitMore

SpecNote == InitNote /\ [][write_note_agent]_vars

\* C25: the agent in the key of a note is the agent of its front-matter,
\* for every agent name of the call or of the token.
C25_KeyAgentIsFrontMatterAgent ==
  note.written => note.filename_agent = note.front_matter_agent

\* C26: when admin_gc_notes(max_age_days=0, confirm=true, delete_only=false)
\* has completed, every live note that existed before the call (written in
\* an earlier second) is gone and, if there was one, at least one bank file
\* exists.
C26_ForcedConsolidationEmptiesLive ==
  (run["gc"].pc = "gc_done" /\ gc_before # {}) =>
     /\ gc_before \cap live = {}
     /\ \E f \in BankFiles : bank[f] # Absent

\* C27: with one call at a time, a backup_create that answers created leaves
\* under its backup_id the keys and contents the space has, and a
\* backup_restore that answers ok leaves in the space the keys and contents
\* of the backup, so that backup_create, space_delete, backup_restore give
\* the space back as it was; a backup_restore on a space that exists answers
\* error and copies nothing.
C27_BackupRoundTrip ==
  [][/\ (job["p1"].tool = "backup_create" /\ job'["p1"] = IdleJob
           /\ answer'.status = "created")
          => backup_objects'[job["p1"].ts] = objects
     /\ (job["p1"].tool = "backup_restore" /\ job'["p1"] = IdleJob
           /\ answer'.status = "ok")
          => objects' = backup_objects[job["p1"].ts]
     /\ (job["p1"].tool = "backup_restore" /\ job["p1"].pc = "exists"
           /\ job'["p1"] # job["p1"] /\ objects["_meta.json"] # Absent)
          => /\ answer' = [tool |-> "backup_restore", status |-> "error"]
             /\ objects' = objects]_vars

\* C28: put, get, delete and copy requests go through the client that signs
\* with version 2; head-bucket, head-object and list requests go through the
\* client that signs with version 4.
C28_SignerRouting ==
  /\ request.operation \in {"put_object", "get_object", "delete_object", "copy_object"}
       => request.client = "s3"
  /\ request.operation \in {"head_bucket", "head_object", "list_objects_v2"}
       => request.client = "s3v4"

\* A restore has completed: it listed the backup, tested the space and copied
\* the objects.
C28_Witness ==
  /\ request = [operation |-> "copy_object", client |-> "s3"]
  /\ answer = [tool |-> "backup_restore", status |-> "ok"]
  /\ objects["_meta.json"] # Absent

\* ------------------------------------------ the MCP client (SSE transport)
\* GraphMemoryClient keeps one session for several call_tool; the command
\* line's MCPClient opens one session per call_tool and keeps its request
\* counter from one call to the next.
nonmcp == <<now, nextId, live, bank, synthesis, meta, lock, run, delFails,
            tokvars, toolvars, storevars, note, gc_before, morevars>>

Post(posted, method, id) == Append(posted, [method |-> method, id |-> id])

\* The client and the SSE task are created; nothing is posted yet.
mcp_connect ==
  /\ mcp.pc = "none"
  /\ \E kind \in {"bridge", "cli"} :
       /\ mcp.kind \in {"none", kind}
       /\ mcp' = [NoSession EXCEPT !.kind = kind, !.pc = "endpoint",
                    !.request_id = IF kind = "cli" THEN mcp.request_id ELSE 0,
                    !.returned = mcp.returned]
  /\ wire' = [sse |-> "open", pending |-> {}]
  /\ UNCHANGED nonmcp

\* The listener gets the endpoint event.
listen_sse_endpoint ==
  /\ wire.sse = "open"
  /\ mcp.pc = "endpoint"
  /\ ~mcp.session_url
  /\ mcp' = [mcp EXCEPT !.session_url = TRUE]
  /\ UNCHANGED <<wire, nonmcp>>

\* The listener gets a message event with a result or an error: the
\* server's answer to one of the requests it holds.
listen_sse_message ==
  /\ wire.sse = "open"
  /\ \E id \in wire.pending :
       /\ wire' = [wire EXCEPT !.pending = @ \ {id}]
       /\ mcp' = [mcp EXCEPT !.responses = Append(@, [id |-> id, kind |-> "response"]),
                             !.got_init = @ \/ id = mcp.init_id]
  /\ UNCHANGED nonmcp

\* The stream fails: the listener puts an error item on the queue.
listen_sse_exception ==
  /\ wire.sse = "open"
  /\ wire' = [wire EXCEPT !.sse = "failed"]
  /\ mcp' = [mcp EXCEPT !.responses = Append(@, [id |-> 0, kind |-> "exception"])]
  /\ UNCHANGED nonmcp

\* The session ends: the SSE task is cancelled and the client closed.
Closed(m) == [m EXCEPT !.pc = "none", !.session_url = FALSE, !.initialized = FALSE]

\* No endpoint in time: ConnectionError.
connect_no_endpoint ==
  /\ mcp.pc = "endpoint"
  /\ ~mcp.session_url
  /\ mcp' = Closed(mcp)
  /\ wire' = NoWire
  /\ UNCHANGED nonmcp

\* The initialize request, once the endpoint is known.
connect_initialize ==
  /\ mcp.pc = "endpoint"
  /\ mcp.session_url
  /\ mcp.request_id < MaxRequests
  /\ LET id == mcp.request_id + 1 IN
       /\ mcp' = [mcp EXCEPT !.request_id = id, !.init_id = id, !.pc = "initialize",
                             !.posted = Post(@, "initialize", id)]
       /\ wire' = [wire EXCEPT !.pending = @ \cup {id}]
  /\ UNCHANGED nonmcp

\* Nothing on the queue in time: ConnectionError.
connect_initialize_timeout ==
  /\ mcp.pc = "initialize"
  /\ mcp.responses = <<>>
  /\ mcp' = Closed(mcp)
  /\ wire' = NoWire
  /\ UNCHANGED nonmcp

\* An item came off the queue: notifications/initialized is posted.
connect_initialized ==
  /\ mcp.pc = "initialize"
  /\ mcp.responses # <<>>
  /\ mcp' = [mcp EXCEPT !.responses = Tail(@), !.initialized = TRUE, !.pc = "ready",
                        !.posted = Post(@, "notifications/initialized", 0)]
  /\ UNCHANGED <<wire, nonmcp>>

\* call_tool's test: "not self._initialized or not self._client or not
\* self._session_url" raises.
call_tool_connected == mcp.pc = "ready" /\ mcp.initialized /\ mcp.session_url

\* call_tool posts tools/call with the next id.
call_tool ==
  /\ call_tool_connected
  /\ mcp.request_id < MaxRequests
  /\ LET id == mcp.request_id + 1 IN
       /\ mcp' = [mcp EXCEPT !.request_id = id, !.pc = "call",
                             !.posted = Post(@, "tools/call", id)]
       /\ wire' = [wire EXCEPT !.pending = @ \cup {id}]
  /\ UNCHANGED nonmcp

\* After a call_tool the command line's session ends; the bridge keeps its
\* session.
AfterCall(m) == IF m.kind = "cli" THEN Closed(m) ELSE [m EXCEPT !.pc = "ready"]

\* call_tool returns the next item of the queue.
call_tool_response ==
  /\ mcp.pc = "call"
  /\ mcp.responses # <<>>
  /\ mcp' = AfterCall([mcp EXCEPT !.responses = Tail(@),
                 !.returned = [request |-> mcp.request_id,
                               response |-> Head(mcp.responses).id,
                               kind |-> Head(mcp.responses).kind]])
  /\ wire' = IF mcp.kind = "cli" THEN NoWire ELSE wire
  /\ UNCHANGED nonmcp

\* Nothing on the queue in time: TimeoutError; the bridge's push goes on to
\* its next file with the same client.
call_tool_timeout ==
  /\ mcp.pc = "call"
  /\ mcp.responses = <<>>
  /\ mcp' = AfterCall([mcp EXCEPT !.returned = [request |-> mcp.request_id,
                                               response |-> 0, kind |-> "timeout"]])
  /\ wire' = IF mcp.kind = "cli" THEN NoWire ELSE wire
  /\ UNCHANGED nonmcp

\* The bridge leaves its "async with".
mcp_disconnect ==
  /\ mcp.pc = "ready"
  /\ mcp' = Closed(mcp)
  /\ wire' = NoWire
  /\ UNCHANGED nonmcp

NextMcp ==
  \/ mcp_connect
  \/ listen_sse_endpoint
  \/ listen_sse_message
  \/ listen_sse_exception
  \/ connect_no_endpoint
  \/ connect_initialize
  \/ connect_initialize_timeout
  \/ connect_initialized
  \/ call_tool
  \/ call_tool_response
  \/ call_tool_timeout
  \/ mcp_disconnect

SpecMcp == Init /\ [][NextMcp]_vars

\* C29: call_tool returns the response whose JSON-RPC id is the id of its
\* request; a response with another id is never returned.
C29_ResponseMatchesRequest ==
  mcp.returned.kind = "response" => mcp.returned.response = mcp.returned.request

\* The position of the first request of a method among those posted, or 0.
FirstPost(method) ==
  IF \E i \in 1..Len(mcp.posted) : mcp.posted[i].method = method
  THEN CHOOSE i \in 1..Len(mcp.posted) :
         /\ mcp.posted[i].method = method
         /\ \A j \in 1..(i - 1) : mcp.posted[j].method # method
  ELSE 0

\* C30: in a session the client posts nothing before the endpoint event,
\* posts notifications/initialized only after the response to initialize has
\* come, and posts no tools/call before notifications/initialized.
C30_HandshakeOrder ==
  /\ mcp.posted # <<>> => mcp.session_url \/ mcp.pc = "none"
  /\ FirstPost("notifications/initialized") # 0 =>
       /\ FirstPost("initialize") # 0
       /\ FirstPost("initialize") < FirstPost("notifications/initialized")
       /\ mcp.got_init
  /\ FirstPost("tools/call") # 0 =>
       /\ FirstPost("notifications/initialized") # 0
       /\ FirstPost("notifications/initialized") < FirstPost("tools/call")

\* ----------------------------------------------- one run at a time (C31)
\* C31: at most one consolidator run is in progress on the space, whether
\* started by bank_consolidate or by the garbage collector, and a run is in
\* progress only while the consolidation lock of the space is held.
C31_OneRunPerSpace ==
  /\ Cardinality({p \in Procs : InRun(p)}) <= 1
  /\ \A p \in Procs : InRun(p) => lock

\* The collector is inside the consolidator and a bank_consolidate that
\* arrived meanwhile has been answered conflict.
C31_Witness ==
  /\ run["gc"].pc \in AfterCollect
  /\ run["c1"].pc = "done"
  /\ run["c1"].result.status = "conflict"
  /\ lock

\* --------------------------------------------------- lock released (C32)
\* C32: the consolidation lock is released when its run ends, whatever the
\* run returned or raised: the lock is held only while a run is in
\* progress, and a bank_consolidate that arrives while no run is in
\* progress is never answered status=conflict.
C32_LockReleasedAtEnd ==
  /\ [](lock => \E p \in Procs : InRun(p))
  /\ [][\A p \in Callers :
          (/\ run[p].pc = "idle"
           /\ run'[p].pc = "done"
           /\ run'[p].result.status = "conflict")
          => \E q \in Procs \ {p} : InRun(q)]_vars

\* A run of the collector has ended with an error and a bank_consolidate
\* that arrived afterwards is inside the consolidator.
C32_Witness ==
  /\ run["gc"].pc = "gc_loop"
  /\ \E i \in DOMAIN run["gc"].gc_details : run["gc"].gc_details[i].status = "error"
  /\ run["c1"].pc = "collect"

\* ------------------------------------------------- two spaces (C33)
nonspaces == <<now, nextId, live, bank, synthesis, meta, lock, run, delFails,
               tokvars, toolvars, storevars, note, gc_before, mcpvars, graphvars,
               restvars>>

\* key.startswith(prefix)
startswith(key, prefix) ==
  /\ Len(prefix) <= Len(key)
  /\ SubSeq(key, 1, Len(prefix)) = prefix

\* list_objects(prefix): the keys present under the prefix, in the order
\* of the listing (the byte order of the keys).
RelOrder == <<MetaRel, SynthesisRel, BankRel, <<"live/", "n1">>, <<"live/", "n2">>>>
BucketOrder ==
  [i \in 1..(Len(SpaceIds) * Len(RelOrder)) |->
     Key(SpaceIds[((i - 1) \div Len(RelOrder)) + 1],
         RelOrder[((i - 1) % Len(RelOrder)) + 1])]
list_objects(prefix) ==
  SelectSeq(BucketOrder, LAMBDA k : bucket[k] # Absent /\ startswith(k, prefix))

\* What a run on the space writes: made from the notes of that space.
SpaceName(space_id) == IF space_id = SpaceX THEN "s" ELSE "s2"
Written(what, space_id) == what \o " of " \o SpaceName(space_id)

\* One lock for every space.
consolidation_one_lock(space_id) == <<>>

\* LockManager.consolidation(space_id): the lock of that space id.
consolidation(space_id) == space_id

\* The task is inside consolidate() on its space.
Consolidating(t) ==
  task[t].pc \in {"collect", "llm", "bank", "synthesis", "meta", "delete"}

\* Leaving "async with lock" on the space with a status.
Leave(t, status) ==
  /\ consolidation_locks' = consolidation_locks \ {consolidation(task[t].space_id)}
  /\ task' = [task EXCEPT ![t] =
       IF t = "gc"
       THEN [@ EXCEPT !.pc = "gc_loop", !.notes_keys = <<>>,
                      !.details = Append(@, [space_id |-> task[t].space_id,
                                             status |-> status])]
       ELSE [@ EXCEPT !.pc = "done", !.notes_keys = <<>>, !.status = status]]

\* live_note on a space: one put of a fresh key.
spaces_write_note ==
  /\ \E i \in DOMAIN SpaceIds, rel \in LiveRels :
       /\ bucket[Key(SpaceIds[i], rel)] = Absent
       /\ bucket' = [bucket EXCEPT ![Key(SpaceIds[i], rel)] = "note"]
  /\ UNCHANGED <<consolidation_locks, task, nonspaces>>

\* bank_consolidate(space_id): lock.locked() -> conflict, else async with
\* lock.
spaces_bank_consolidate(t) ==
  /\ t \in DOMAIN TaskSpace
  /\ task[t].pc = "idle"
  /\ IF consolidation(TaskSpace[t]) \in consolidation_locks
     THEN /\ task' = [task EXCEPT ![t] = [IdleTask EXCEPT !.pc = "done",
                         !.space_id = TaskSpace[t], !.status = "conflict"]]
          /\ UNCHANGED consolidation_locks
     ELSE /\ task' = [task EXCEPT ![t] = [IdleTask EXCEPT !.pc = "collect",
                         !.space_id = TaskSpace[t]]]
          /\ consolidation_locks' =
               consolidation_locks \cup {consolidation(TaskSpace[t])}
  /\ UNCHANGED <<bucket, nonspaces>>

\* The tool call has returned.
spaces_return(t) ==
  /\ task[t].pc = "done"
  /\ task' = [task EXCEPT ![t] = IdleTask]
  /\ UNCHANGED <<consolidation_locks, bucket, nonspaces>>

\* _collect_inputs: _meta.json, then the notes under {space_id}/live/.
spaces_collect_inputs(t) ==
  /\ task[t].pc = "collect"
  /\ LET space_id == task[t].space_id
         notes == list_objects(Key(space_id, <<"live/">>))
     IN IF bucket[Key(space_id, MetaRel)] = Absent
        THEN Leave(t, "error")
        ELSE IF notes = <<>>
        THEN Leave(t, "ok")
        ELSE /\ task' = [task EXCEPT ![t].pc = "llm", ![t].notes_keys = notes]
             /\ UNCHANGED consolidation_locks
  /\ UNCHANGED <<bucket, nonspaces>>

\* _call_llm: an answer, or status=error after the retry.
spaces_call_llm(t) ==
  /\ task[t].pc = "llm"
  /\ \/ /\ task' = [task EXCEPT ![t].pc = "bank"]
        /\ UNCHANGED consolidation_locks
     \/ Leave(t, "error")
  /\ UNCHANGED <<bucket, nonspaces>>

\* _write_results: put of {space_id}/bank/{filename}.
spaces_write_bank(t) ==
  /\ task[t].pc = "bank"
  /\ bucket' = [bucket EXCEPT ![Key(task[t].space_id, BankRel)] =
                  Written("bank", task[t].space_id)]
  /\ task' = [task EXCEPT ![t].pc = "synthesis"]
  /\ UNCHANGED <<consolidation_locks, nonspaces>>

\* _write_results: put of {space_id}/_synthesis.md.
spaces_write_synthesis(t) ==
  /\ task[t].pc = "synthesis"
  /\ bucket' = [bucket EXCEPT ![Key(task[t].space_id, SynthesisRel)] =
                  Written("synthesis", task[t].space_id)]
  /\ task' = [task EXCEPT ![t].pc = "meta"]
  /\ UNCHANGED <<consolidation_locks, nonspaces>>

\* _write_results: get_json and put_json of {space_id}/_meta.json.
spaces_write_meta(t) ==
  /\ task[t].pc = "meta"
  /\ bucket' = [bucket EXCEPT ![Key(task[t].space_id, MetaRel)] =
                  Written("meta", task[t].space_id)]
  /\ task' = [task EXCEPT ![t].pc = "delete"]
  /\ UNCHANGED <<consolidation_locks, nonspaces>>

\* _write_results: delete_many(notes_keys), one delete_object each, then
\* the listing of the bank and the return.
spaces_delete_many(t) ==
  /\ task[t].pc = "delete"
  /\ bucket' = [bucket EXCEPT ![Head(task[t].notes_keys)] = Absent]
  /\ IF Len(task[t].notes_keys) = 1
     THEN Leave(t, "ok")
     ELSE /\ task' = [task EXCEPT ![t].notes_keys = Tail(@)]
          /\ UNCHANGED consolidation_locks
  /\ UNCHANGED nonspaces

\* scan_old_notes(space_id = ""): every space that has notes (all of them
\* old enough).
spaces_gc_scan ==
  /\ task["gc"].pc = "idle"
  /\ LET found == SelectSeq(SpaceIds, LAMBDA space_id :
                    /\ bucket[Key(space_id, MetaRel)] # Absent
                    /\ list_objects(Key(space_id, <<"live/">>)) # <<>>)
     IN task' = [task EXCEPT !["gc"] =
                   IF found = <<>>
                   THEN [IdleTask EXCEPT !.pc = "done", !.status = "ok"]
                   ELSE [IdleTask EXCEPT !.pc = "gc_loop", !.spaces = found]]
  /\ UNCHANGED <<consolidation_locks, bucket, nonspaces>>

\* consolidate_old_notes, next space: the notice (write_note: one put of a
\* fresh key, nothing when no key is left), or the report.
spaces_gc_notice ==
  /\ task["gc"].pc = "gc_loop"
  /\ IF task["gc"].spaces = <<>>
     THEN /\ task' = [task EXCEPT !["gc"].pc = "done", !["gc"].status = "ok"]
          /\ UNCHANGED bucket
     ELSE LET space_id == Head(task["gc"].spaces)
              free == {rel \in LiveRels : bucket[Key(space_id, rel)] = Absent}
          IN /\ task' = [task EXCEPT !["gc"].pc = "gc_lock",
                                     !["gc"].space_id = space_id,
                                     !["gc"].spaces = Tail(@)]
             /\ IF free = {} THEN UNCHANGED bucket
                ELSE \E rel \in free :
                       bucket' = [bucket EXCEPT ![Key(space_id, rel)] = "gc notice"]
  /\ UNCHANGED <<consolidation_locks, nonspaces>>

\* lock.locked() -> skipped, else async with lock.
spaces_gc_try_lock ==
  /\ task["gc"].pc = "gc_lock"
  /\ IF consolidation(task["gc"].space_id) \in consolidation_locks
     THEN /\ task' = [task EXCEPT !["gc"].pc = "gc_loop",
                        !["gc"].details = Append(@,
                           [space_id |-> task["gc"].space_id, status |-> "skipped"])]
          /\ UNCHANGED consolidation_locks
     ELSE /\ task' = [task EXCEPT !["gc"].pc = "collect"]
          /\ consolidation_locks' =
               consolidation_locks \cup {consolidation(task["gc"].space_id)}
  /\ UNCHANGED <<bucket, nonspaces>>

NextSpaces ==
  \/ spaces_write_note
  \/ spaces_gc_scan
  \/ spaces_gc_notice
  \/ spaces_gc_try_lock
  \/ \E t \in Tasks :
       \/ spaces_bank_consolidate(t)
       \/ spaces_return(t)
       \/ spaces_collect_inputs(t)
       \/ spaces_call_llm(t)
       \/ spaces_write_bank(t)
       \/ spaces_write_synthesis(t)
       \/ spaces_write_meta(t)
       \/ spaces_delete_many(t)

SpecSpaces == Init /\ [][NextSpaces]_vars

\* The objects under {space_id}/.
Under(space_id) == {k \in BucketKeys : startswith(k, space_id \o <<"/">>)}

\* C33: consolidations on different spaces are independent: a
\* bank_consolidate is answered conflict, and the collector skips a space,
\* only while a run is in progress on that very space; and a step of a run
\* on one space changes no object under another space.
C33_SpacesIndependent ==
  [][/\ \A t \in DOMAIN TaskSpace :
          (task[t].pc = "idle" /\ task'[t].status = "conflict")
          => \E q \in Tasks \ {t} :
               Consolidating(q) /\ task[q].space_id = TaskSpace[t]
     /\ (task["gc"].pc = "gc_lock" /\ task'["gc"].pc = "gc_loop")
          => \E q \in Tasks \ {"gc"} :
               Consolidating(q) /\ task[q].space_id = task["gc"].space_id
     /\ \A t \in Tasks :
          (Consolidating(t) /\ task'[t] # task[t])
          => \A i \in DOMAIN SpaceIds :
               SpaceIds[i] # task[t].space_id
               => \A k \in Under(SpaceIds[i]) : bucket'[k] = bucket[k]]_vars

\* Two consolidations are writing at once, one on each space, each its own
\* objects, and a third call on one of these spaces has been refused.
C33_Witness ==
  /\ task["gc"].pc = "meta" /\ task["gc"].space_id = SpaceX
  /\ task["cy"].pc = "delete"
  /\ bucket[Key(SpaceY, BankRel)] = Written("bank", SpaceY)
  /\ bucket[Key(SpaceX, BankRel)] = Written("bank", SpaceX)
  /\ task["cx"].status = "conflict"

\* ------------------------------------------------ notice, then lock (C34)
\* C34: for each agent with old notes the collector first writes one note
\* in the name of that agent and only then tests the lock of the space;
\* when the lock is held it records status=skipped for that agent in the
\* same step, without entering the consolidator: that step removes nothing
\* from live/, writes nothing to the bank and leaves the lock and the
\* running call alone.
C34_NoticeThenSkip ==
  [][/\ (run'["gc"].pc = "gc_lock" /\ run["gc"].pc # "gc_lock")
          => /\ run["gc"].pc = "gc_loop"
             /\ \E k \in live' \ live :
                  /\ live' = live \cup {k}
                  /\ extract_agent(k) = run'["gc"].gc_agents[1]
     /\ (run'["gc"].pc = "collect" /\ run["gc"].pc # "collect")
          => run["gc"].pc = "gc_lock" /\ ~lock
     /\ (run["gc"].pc = "gc_lock" /\ run'["gc"] # run["gc"] /\ lock)
          => /\ run'["gc"].pc = "gc_loop"
             /\ run'["gc"].gc_details =
                  Append(run["gc"].gc_details,
                         [agent |-> run["gc"].gc_agents[1], status |-> "skipped"])
             /\ run'["gc"].gc_agents = Tail(run["gc"].gc_agents)
             /\ run'["gc"].ops = <<>>
             /\ run'["gc"].requests = 0
             /\ UNCHANGED <<live, bank, synthesis, meta, lock>>
             /\ \A p \in Callers : run'[p] = run[p]]_vars

\* The collector has skipped an agent whose notice is in live/ while a
\* bank_consolidate holds the lock.
C34_Witness ==
  /\ run["gc"].pc = "gc_loop"
  /\ run["gc"].gc_details # <<>>
  /\ run["gc"].gc_details[Len(run["gc"].gc_details)].status = "skipped"
  /\ Cardinality({k \in live :
        extract_agent(k) = run["gc"].gc_details[Len(run["gc"].gc_details)].agent}) >= 2
  /\ run["c1"].pc \in AfterCollect
  /\ lock

\* ------------------------------------------------ no lost update (C35)
\* C35: when every create, revoke, update and validate call has completed,
\* the registry holds a record for every token whose create returned
\* created, with the permissions and space ids of its latest update.
C35_NoLostRegistryUpdate ==
  (\A q \in TRequests : tk[q].pc = "idle") =>
    \A h \in DOMAIN granted :
      \E i \in DOMAIN registry :
        /\ registry[i].hash = h
        /\ registry[i].permissions = granted[h].permissions
        /\ registry[i].space_ids = granted[h].space_ids

\* ------------------------------------------------------- graph bridge
nongraph == <<now, nextId, live, bank, synthesis, meta, lock, run, delFails,
              tokvars, toolvars, storevars, note, gc_before, mcpvars, spacevars,
              restvars>>

SeqOf(S) == SelectSeq(FileOrder, LAMBDA f : f \in S)

\* A call that has returned is taken off the table before anything else
\* happens.
GQuiet == \A j \in GJobs : gjob[j].pc # "done"

\* The call of job j returns.
EndG(j, result) ==
  gjob' = [gjob EXCEPT ![j] = [IdleG EXCEPT !.pc = "done", !.result = result]]

Status(status) == [NoPush EXCEPT !.status = status]

graph_return(j) ==
  /\ gjob[j].pc = "done"
  /\ gjob' = [gjob EXCEPT ![j] = IdleG]
  /\ UNCHANGED <<meta_json, bank_files, remote, commits, nongraph>>

\* What one call_tool on the remote can do: the tool answers, answers
\* status=error (or a JSON-RPC error), or call_tool raises (timeout,
\* connection).
Outcomes == {"ok", "error", "raise"}

\* _write_results under the consolidation lock: the bank files and the
\* synthesis are written.
graph_write_bank(j) ==
  /\ GQuiet
  /\ j = "c"
  /\ gjob[j].pc = "idle"
  /\ commits.count < MaxCommits
  /\ \E filename \in {"a.md", "b.md"}, notes_count \in {1, 2} :
       /\ bank_files' = bank_files \cup {filename}
       /\ gjob' = [gjob EXCEPT ![j] = [IdleG EXCEPT !.tool = "bank_consolidate",
                      !.pc = "get_meta", !.notes_count = notes_count]]
  /\ UNCHANGED <<meta_json, remote, commits, nongraph>>

\* _write_results: meta = get_json(_meta.json) or {}.
graph_get_meta(j) ==
  /\ GQuiet
  /\ gjob[j].pc = "get_meta"
  /\ gjob' = [gjob EXCEPT ![j].pc = "put_meta", ![j].meta_data = meta_json]
  /\ UNCHANGED <<meta_json, bank_files, remote, commits, nongraph>>

\* _write_results: the counters are bumped in the copy and the copy is
\* put; the run is committed (the notes are deleted next).
graph_put_meta(j) ==
  /\ GQuiet
  /\ gjob[j].pc = "put_meta"
  /\ meta_json' = [gjob[j].meta_data EXCEPT
                     !.consolidation_count = @ + 1,
                     !.total_notes_processed = @ + gjob[j].notes_count]
  /\ commits' = [commits EXCEPT !.count = @ + 1, !.notes = @ + gjob[j].notes_count]
  /\ EndG(j, Status("ok"))
  /\ UNCHANGED <<bank_files, remote, nongraph>>

\* GraphBridgeService.connect: get_json(_meta.json).
graph_connect_get(j) ==
  /\ GQuiet
  /\ j = "g1"
  /\ gjob[j].pc = "idle"
  /\ ~meta_json.graph_memory.connected
  /\ gjob' = [gjob EXCEPT ![j] = [IdleG EXCEPT !.tool = "graph_connect",
                 !.pc = "connect_test", !.meta_data = meta_json]]
  /\ UNCHANGED <<meta_json, bank_files, remote, commits, nongraph>>

\* connect: system_health, memory_list, memory_create on the remote.
graph_connect_test(j) ==
  /\ GQuiet
  /\ gjob[j].pc = "connect_test"
  /\ \E outcome \in Outcomes :
       IF outcome = "ok"
       THEN gjob' = [gjob EXCEPT ![j].pc = "connect_put"]
       ELSE EndG(j, Status("error"))
  /\ UNCHANGED <<meta_json, bank_files, remote, commits, nongraph>>

\* connect: meta_data["graph_memory"] = the new config (push_count 0);
\* put_json.  No push has completed under this config yet.
graph_connect_put(j) ==
  /\ GQuiet
  /\ gjob[j].pc = "connect_put"
  /\ meta_json' = [gjob[j].meta_data EXCEPT !.graph_memory = GraphMemoryConfig]
  /\ commits' = [commits EXCEPT !.pushes = 0]
  /\ EndG(j, Status("connected"))
  /\ UNCHANGED <<bank_files, remote, nongraph>>

\* GraphBridgeService.disconnect: get_json(_meta.json).
graph_disconnect_get(j) ==
  /\ GQuiet
  /\ j = "g1"
  /\ gjob[j].pc = "idle"
  /\ commits.pushes > 0
  /\ IF ~meta_json.graph_memory.connected
     THEN EndG(j, Status("ok"))
     ELSE gjob' = [gjob EXCEPT ![j] = [IdleG EXCEPT !.tool = "graph_disconnect",
                      !.pc = "disconnect_put", !.meta_data = meta_json]]
  /\ UNCHANGED <<meta_json, bank_files, remote, commits, nongraph>>

\* disconnect: meta_data["graph_memory"] = None; put_json.
graph_disconnect_put(j) ==
  /\ GQuiet
  /\ gjob[j].pc = "disconnect_put"
  /\ meta_json' = [gjob[j].meta_data EXCEPT !.graph_memory = NoGraphMemory]
  /\ EndG(j, Status("disconnected"))
  /\ UNCHANGED <<bank_files, remote, commits, nongraph>>

\* GraphBridgeService.push: get_json(_meta.json) and the graph_memory
\* config in it.
push_get_meta(j) ==
  /\ GQuiet
  /\ j = "g1"
  /\ gjob[j].pc = "idle"
  /\ commits.pushes < MaxPushes
  /\ IF ~meta_json.graph_memory.connected
     THEN EndG(j, Status("error"))
     ELSE gjob' = [gjob EXCEPT ![j] = [IdleG EXCEPT !.tool = "graph_push",
                      !.pc = "push_bank", !.meta_data = meta_json]]
  /\ UNCHANGED <<meta_json, bank_files, remote, commits, nongraph>>

\* push: list_and_get of the bank.
push_list_bank(j) ==
  /\ GQuiet
  /\ gjob[j].pc = "push_bank"
  /\ IF bank_files = {}
     THEN EndG(j, Status("ok"))
     ELSE gjob' = [gjob EXCEPT ![j].pc = "push_document_list",
                               ![j].todo = SeqOf(bank_files),
                               ![j].result.files = bank_files]
  /\ UNCHANGED <<meta_json, bank_files, remote, commits, nongraph>>

\* Where the loop over the bank files goes when todo is what is left.
AfterFile(todo, orphans) ==
  IF todo # <<>> THEN "push_file"
  ELSE IF orphans # <<>> THEN "push_clean" ELSE "push_put"

\* push: document_list; existing_docs stays empty unless status=ok; an
\* exception leaves the push with status=error.
push_document_list(j) ==
  /\ GQuiet
  /\ gjob[j].pc = "push_document_list"
  /\ \E outcome \in Outcomes :
       IF outcome = "raise"
       THEN EndG(j, Status("error"))
       ELSE LET existing_docs == IF outcome = "ok" THEN remote ELSE {} IN
            gjob' = [gjob EXCEPT ![j].pc = "push_file",
                                 ![j].existing_docs = existing_docs,
                                 ![j].orphans =
                                   SeqOf(existing_docs \ gjob[j].result.files)]
  /\ UNCHANGED <<meta_json, bank_files, remote, commits, nongraph>>

\* push: document_delete of a bank file that is in existing_docs; a
\* status=error is logged and the file is ingested all the same, an
\* exception counts the file as an error.
push_delete(j) ==
  /\ GQuiet
  /\ gjob[j].pc = "push_file"
  /\ Head(gjob[j].todo) \in gjob[j].existing_docs
  /\ \E outcome \in Outcomes :
       CASE outcome = "ok" ->
              /\ remote' = remote \ {Head(gjob[j].todo)}
              /\ gjob' = [gjob EXCEPT ![j].pc = "push_ingest",
                            ![j].result.deleted_before_reingest = @ + 1]
         [] outcome = "error" ->
              /\ remote' = remote
              /\ gjob' = [gjob EXCEPT ![j].pc = "push_ingest",
                            ![j].result.failed_delete = TRUE]
         [] OTHER ->
              /\ remote' = remote
              /\ gjob' = [gjob EXCEPT
                            ![j].pc = AfterFile(Tail(gjob[j].todo), gjob[j].orphans),
                            ![j].todo = Tail(@),
                            ![j].result.errors = @ + 1]
  /\ UNCHANGED <<meta_json, bank_files, commits, nongraph>>

\* push: memory_ingest of the file (base64 of its content).
push_ingest(j) ==
  /\ GQuiet
  /\ \/ gjob[j].pc = "push_ingest"
     \/ gjob[j].pc = "push_file" /\ Head(gjob[j].todo) \notin gjob[j].existing_docs
  /\ LET filename == Head(gjob[j].todo)
         next == AfterFile(Tail(gjob[j].todo), gjob[j].orphans)
     IN \E outcome \in Outcomes :
          IF outcome = "ok"
          THEN /\ remote' = remote \cup {filename}
               /\ gjob' = [gjob EXCEPT ![j].pc = next, ![j].todo = Tail(@),
                             ![j].result.pushed = @ + 1,
                             ![j].result.undeleted = @ \/ filename \in remote]
          ELSE /\ remote' = remote
               /\ gjob' = [gjob EXCEPT ![j].pc = next, ![j].todo = Tail(@),
                             ![j].result.errors = @ + 1]
  /\ UNCHANGED <<meta_json, bank_files, commits, nongraph>>

\* push: document_delete of a remote document that is not in the bank.
push_clean(j) ==
  /\ GQuiet
  /\ gjob[j].pc = "push_clean"
  /\ LET next == IF Tail(gjob[j].orphans) = <<>> THEN "push_put" ELSE "push_clean" IN
     \E outcome \in Outcomes :
       IF outcome = "ok"
       THEN /\ remote' = remote \ {Head(gjob[j].orphans)}
            /\ gjob' = [gjob EXCEPT ![j].pc = next, ![j].orphans = Tail(@),
                          ![j].result.cleaned = @ + 1]
       ELSE /\ remote' = remote
            /\ gjob' = [gjob EXCEPT ![j].pc = next, ![j].orphans = Tail(@),
                          ![j].result.failed_delete = TRUE]
  /\ UNCHANGED <<meta_json, bank_files, commits, nongraph>>

\* push: push_count of the config read at the start is bumped and the copy
\* of _meta.json is put; the push returns status=ok with its counts.
push_put_meta(j) ==
  /\ GQuiet
  /\ gjob[j].pc = "push_put"
  /\ meta_json' = [gjob[j].meta_data EXCEPT !.graph_memory.push_count = @ + 1]
  /\ commits' = [commits EXCEPT !.pushes = @ + 1]
  /\ EndG(j, [gjob[j].result EXCEPT !.status = "ok"])
  /\ UNCHANGED <<bank_files, remote, nongraph>>

GraphStep(j) ==
  \/ graph_return(j)
  \/ graph_write_bank(j)
  \/ graph_get_meta(j)
  \/ graph_put_meta(j)
  \/ graph_connect_get(j)
  \/ graph_connect_test(j)
  \/ graph_connect_put(j)
  \/ graph_disconnect_get(j)
  \/ graph_disconnect_put(j)
  \/ push_get_meta(j)
  \/ push_list_bank(j)
  \/ push_document_list(j)
  \/ push_delete(j)
  \/ push_ingest(j)
  \/ push_clean(j)
  \/ push_put_meta(j)

\* Consolidations and graph tools on the space, interleaved at every await.
NextGraph == \E j \in GJobs : GraphStep(j)

SpecGraph == Init /\ [][NextGraph]_vars

\* One call at a time.
NextGraphSeq ==
  \E j \in GJobs : (\A k \in GJobs \ {j} : gjob[k].pc = "idle") /\ GraphStep(j)

SpecGraphSeq == Init /\ [][NextGraphSeq]_vars

\* C36: the counters of _meta.json are exact: consolidation_count is the
\* number of consolidation runs that committed and total_notes_processed
\* the sum of their notes_processed, whatever graph_connect, graph_push and
\* graph_disconnect do meanwhile.
C36_CountersExact ==
  /\ meta_json.consolidation_count = commits.count
  /\ meta_json.total_notes_processed = commits.notes

\* C40: a graph push that returns status=ok accounts for every bank file
\* exactly once: pushed + errors is the number of bank files it listed, no
\* file was ingested while still present on the remote, with errors = 0 and
\* no failed delete the remote documents are exactly the bank file names,
\* and push_count in _meta.json is the number of pushes completed since the
\* space was connected.
C40_PushAccountsForEveryFile ==
  [][(gjob["g1"].pc = "push_put" /\ gjob'["g1"].pc = "done") =>
       LET r == gjob'["g1"].result IN
       /\ r.pushed + r.errors = Cardinality(r.files)
       /\ ~r.undeleted
       /\ (r.errors = 0 /\ ~r.failed_delete) => remote' = r.files
       /\ meta_json'.graph_memory.push_count = commits'.pushes]_vars

\* ----------------------------------------------- the cutoff of the GC (C37)
nonyoung == <<tokvars, toolvars, storevars, note, gc_before, mcpvars, spacevars,
              graphvars, filtered>>

write_note_age == WriteNote(MaxWrittenAge)

\* admin_gc_notes(max_age_days, confirm=true, delete_only=false): the scan;
\* the notes that are not older than the cutoff are remembered.
gc_scan_age ==
  /\ \E max_age_days \in {0, 1} :
       /\ ScanNotes({max_age_days}, MaxWrittenAge + 2)
       /\ gc_young' = {k \in live : ~(k.ts < now - max_age_days)}
  /\ UNCHANGED <<now, nextId, live, bank, synthesis, meta, lock, delFails, nonyoung>>

\* Agents writing notes and the collector; nobody else consolidates.
NextGCAge ==
  \/ Tick
  \/ write_note_age
  \/ gc_scan_age
  \/ gc_notice
  \/ gc_try_lock
  \/ gc_record
  \/ RunStepGC("gc")

SpecGCAge == Init /\ [][NextGCAge]_vars

\* C37: a consolidation by the collector removes only notes older than its
\* cutoff (and its own notices): when admin_gc_notes has completed, every
\* note that was younger than the cutoff at the scan is still in live/.
C37_YoungNotesKept ==
  run["gc"].pc = "gc_done" => gc_young \subseteq live

\* ------------------------------------------------- the agent filter (C38)
\* LiveService.write_note: the file name of a note written by an agent
\* whose name is made of letters, digits, "-" and "_" (safe_agent leaves
\* such a name as it is).
Filename(ts, agent, category, uuid8) == <<ts>> \o agent \o <<category, uuid8>>

\* "_{agent}_" in filename: the pieces of the agent are consecutive
\* pieces of the file name, after the first and before the last.
contains_agent(filename, agent) ==
  \E i \in 1..Len(filename) :
    /\ i + Len(agent) < Len(filename)
    /\ SubSeq(filename, i + 1, i + Len(agent)) = agent

\* filename.startswith("{agent}_")
startswith_agent(filename, agent) ==
  /\ Len(agent) < Len(filename)
  /\ SubSeq(filename, 1, Len(agent)) = agent

\* _collect_inputs with a non-empty agent: the test on the file name.
collects(filename, agent) ==
  contains_agent(filename, agent) \/ startswith_agent(filename, agent)

\* _extract_agent: parts = filename.split("_"); parts[1], or "unknown".
extract_agent_name(filename) ==
  IF Len(filename) >= 3 THEN <<filename[2]>> ELSE <<"unknown">>

\* One note is written by an agent and put through the filter of a
\* consolidation for an agent, and through the collector's extraction.
filter_note ==
  /\ filtered.pc = "args"
  /\ LET filename == Filename("20260101T000000", filtered.written_by,
                              "observation", "1a2b3c4d.md")
     IN filtered' = [filtered EXCEPT !.pc = "done", !.filename = filename,
                       !.collected = collects(filename, filtered.agent),
                       !.extracted = extract_agent_name(filename)]
  /\ UNCHANGED <<now, nextId, live, bank, synthesis, meta, lock, run, delFails,
                 tokvars, toolvars, storevars, note, gc_before, mcpvars,
                 spacevars, graphvars, gc_young>>

\* Every agent that writes and every agent that consolidates.
InitFilter ==
  /\ InitObjects
  /\ InitRest
  /\ note = NoNote
  /\ gc_before = {}
  /\ InitMcp
  /\ InitQuiet
  /\ \E written_by \in PieceNames, agent \in PieceNames :
       filtered = [NoFilter EXCEPT !.written_by = written_by, !.agent = agent]

SpecFilter == InitFilter /\ [][filter_note]_vars

\* C38: consolidate(space, agent) with a non-empty agent collects a note if
\* and only if the note was written with that agent, and the collector's
\* _extract_agent returns the agent the note was written with, for every
\* agent name made of letters, digits, "-" and "_".
C38_AgentFilterExact ==
  filtered.pc = "done" =>
    /\ filtered.collected <=> filtered.written_by = filtered.agent
    /\ filtered.extracted = filtered.written_by

\* ------------------------------------------- scoping and backups (C39)
\* The tools that return the listing or the content of the objects of the
\* space they name (for the backup tools: of a backup of that space).
ReadingTools ==
  {"space_info", "space_rules", "space_summary", "space_export", "live_read",
   "live_search", "bank_read", "bank_read_all", "bank_list", "graph_status"}
BackupReadingTools == {"backup_list", "backup_download"}

\* The call has returned data of the space it names.
Disclosed(c) ==
  /\ c.status = "ok"
  /\ \/ c.tool \in ReadingTools
     \/ c.tool \in BackupReadingTools /\ c.space_id \in backups

\* C39: a token without admin whose space list is not empty never obtains,
\* through any tool, backup_list and backup_download included, the listing
\* or the content of objects of a space outside its list.
C39_NoReadOutsideListedSpaces ==
  [][(ToolCall /\ call'.ctx # NoContext /\ call'.space_id \in Spaces) =>
       LET t == call'.ctx[1] IN
       (/\ "admin" \notin Range(t.permissions)
        /\ t.allowed_resources # <<>>
        /\ call'.space_id \notin Range(t.allowed_resources))
       => ~Disclosed(call')]_vars

====
